---- MODULE Spec2Model ----
(***************************************************************************)
(* Model of the document segmentation engine of mate_pipeline.py: the      *)
(* per-line classifier cascade, the event post-processing (sort and        *)
(* same-page dedup) and the interval loop.                                 *)
(*                                                                         *)
(* A line is the sequence of the words of the normalized text.  A compact  *)
(* key is the string obtained by compacting every word and concatenating.  *)
(* Prefix tests (startswith) are resolved at word granularity.             *)
(* Python's 0-based indexes li / idx are 1-based here.                     *)
(***************************************************************************)
EXTENDS Naturals, Integers, Sequences, FiniteSets, TLC

VARIABLES
    npages,             \* len(reader.pages)
    i,                  \* number of pages already taken from reader.pages
    linhas,             \* lines of the current page
    pag_num,            \* printed number of the current page
    li,                 \* index of the next line of the page (1-based)
    eventos,            \* (pag, ordem, tipo, label_out, fim_sobreposto, top_flag)
    ordem,
    in_tramitacao,
    sub_tramitacao,
    apresentacao_ativa,
    sub_apresentacao,
    viu_corresp_cab,
    pegou_leis,
    emitidos,           \* history: the events in the order the classifier appended them
    itens,
    pc,                 \* "page", "line", "sort", "filter", "build", "done"
    attempt,            \* _with_backoff: the loop variable of range(8)
    msg,                \* _with_backoff: str(e) of the exception caught last
    sleep_s,            \* _with_backoff: the integer part of the last wait
    chamadas,           \* history: number of calls of fn
    retorno,            \* how _with_backoff left: result, None or exception
    bpc                 \* "parado", "call", "except", "returned", "raised"

docvars == <<npages, i, linhas, pag_num, li, eventos, ordem, in_tramitacao,
             sub_tramitacao, apresentacao_ativa, sub_apresentacao,
             viu_corresp_cab, pegou_leis, emitidos, itens, pc>>

bvars == <<attempt, msg, sleep_s, chamadas, retorno, bpc>>

vars == <<npages, i, linhas, pag_num, li, eventos, ordem, in_tramitacao,
          sub_tramitacao, apresentacao_ativa, sub_apresentacao,
          viu_corresp_cab, pegou_leis, emitidos, itens, pc,
          attempt, msg, sleep_s, chamadas, retorno, bpc>>

None == "None"

(***************************************************************************)
(* Bounds of the explored documents.                                       *)
(***************************************************************************)
MaxPages == 2
MaxLines == 2

(***************************************************************************)
(* Text helpers.                                                           *)
(***************************************************************************)
RECURSIVE Join(_)
Join(ws) == IF ws = <<>> THEN "" ELSE Head(ws) \o Join(Tail(ws))

RECURSIVE JoinSp(_)
JoinSp(ws) ==
    IF ws = <<>> THEN ""
    ELSE IF Len(ws) = 1 THEN ws[1]
    ELSE ws[1] \o " " \o JoinSp(Tail(ws))

\* str.upper() on a word of the vocabulary
Upper(w) ==
    CASE w = "Lei" -> "LEI"
      [] w = "Leis" -> "LEIS"
      [] w = "Ofícios" -> "OFÍCIOS"
      [] w = "Página" -> "PÁGINA"
      [] w = "Segunda-feira" -> "SEGUNDA-FEIRA"
      [] OTHER -> w

\* compact_key on one word: upper, strip diacritics, keep [0-9A-Z]
CompactWord(w) ==
    LET u == Upper(w) IN
    CASE u = "TRAMITAÇÃO" -> "TRAMITACAO"
      [] u = "PROPOSIÇÕES" -> "PROPOSICOES"
      [] u = "APRESENTAÇÃO" -> "APRESENTACAO"
      [] u = "OFÍCIOS" -> "OFICIOS"
      [] u = "MANIFESTAÇÃO" -> "MANIFESTACAO"
      [] u = "MANIFESTAÇÕES" -> "MANIFESTACOES"
      [] u = "DECISÃO" -> "DECISAO"
      [] u = "COMUNICAÇÃO" -> "COMUNICACAO"
      [] u = "COMUNICAÇÕES" -> "COMUNICACOES"
      [] u = "PRESIDÊNCIA" -> "PRESIDENCIA"
      [] u = "CORRESPONDÊNCIA" -> "CORRESPONDENCIA"
      [] u = "1º-SECRETÁRIO" -> "1SECRETARIO"
      [] u = "MATÉRIA" -> "MATERIA"
      [] u = "QUESTÃO" -> "QUESTAO"
      [] u = "RESOLUÇÃO" -> "RESOLUCAO"
      [] u = "LÍDERES" -> "LIDERES"
      [] u = "NÃO" -> "NAO"
      [] u = "PÁGINA" -> "PAGINA"
      [] u = "SEGUNDA-FEIRA" -> "SEGUNDAFEIRA"
      [] u = "LEI." -> "LEI"
      [] u = "LEI:" -> "LEI"
      [] u = "--" -> ""
      [] u = "-" -> ""
      [] u = "..." -> ""
      [] OTHER -> u

\* the words of the compact key of a line (empty compactions vanish)
compact_words(ln) ==
    SelectSeq([k \in 1..Len(ln) |-> CompactWord(ln[k])], LAMBDA w : w # "")

compact_key(ln) == Join(compact_words(ln))

\* key.startswith(prefix), the prefix ending at a word boundary of the key
StartsWith(kw, prefix) ==
    \E n \in 0..Len(kw) : Join(SubSeq(kw, 1, n)) = prefix

Numerais == 0..99

IsNumeral(w) == \E n \in Numerais : ToString(n) = w

\* int(m.group(1))
ParseInt(w) == CHOOSE n \in Numerais : ToString(n) = w

\* RE_PAG.search(ln): the positions of a PÁGINA word followed by a number
RE_PAG(ln) ==
    {j \in 1..(Len(ln) - 1) :
        /\ Upper(ln[j]) \in {"PÁGINA", "PAGINA"}
        /\ IsNumeral(ln[j + 1])}

Min(S) == CHOOSE x \in S : \A y \in S : x <= y

RECURSIVE primeira_pagina_num(_, _)
primeira_pagina_num(ls, fallback) ==
    IF ls = <<>> THEN fallback
    ELSE IF RE_PAG(Head(ls)) # {}
         THEN ParseInt(Head(ls)[Min(RE_PAG(Head(ls))) + 1])
         ELSE primeira_pagina_num(Tail(ls), fallback)

RE_HEADER_LIXO(ln) ==
    \/ RE_PAG(ln) # {}
    \/ \E j \in 1..Len(ln) :
          Upper(ln[j]) \in {"SEGUNDA-FEIRA", "TERÇA-FEIRA", "QUARTA-FEIRA",
                            "QUINTA-FEIRA", "SEXTA-FEIRA", "SÁBADO", "DOMINGO",
                            "WWW.ALMG.GOV.BR"}
    \/ \E j \in 1..(Len(ln) - 2) :
          /\ Upper(ln[j]) \in {"DIÁRIO", "DIARIO"}
          /\ Upper(ln[j + 1]) = "DO"
          /\ Upper(ln[j + 2]) = "LEGISLATIVO"

_linha_relevante(ln) ==
    /\ ln # <<>>
    /\ ~RE_HEADER_LIXO(ln)
    /\ compact_key(ln) # ""

is_top_event(line_idx, ls) ==
    \A k \in 1..(line_idx - 1) : ~_linha_relevante(ls[k])

\* the compact words of the window of w lines starting at line idx
win_words(ls, idx, w) ==
    LET RECURSIVE Cat(_)
        Cat(k) == IF k >= w THEN <<>>
                  ELSE (IF idx + k <= Len(ls) THEN compact_words(ls[idx + k]) ELSE <<>>)
                       \o Cat(k + 1)
    IN Cat(0)

win_keys(ls, idx, w) == Join(win_words(ls, idx, w))

(***************************************************************************)
(* Keys.                                                                   *)
(***************************************************************************)
C_TRAMITACAO == "TRAMITACAODEPROPOSICOES"
C_RECEBIMENTO == "RECEBIMENTODEPROPOSICOES"
C_APRESENTACAO == "APRESENTACAODEPROPOSICOES"
C_ATA == "ATA"
C_ATAS == "ATAS"
C_MATERIA_ADM == "MATERIAADMINISTRATIVA"
C_QUESTAO_ORDEM == "QUESTAODEORDEM"
\* mutant: ATA is not a CUT-class key
CUT_KEYS_sem_ata == {C_ATAS, C_MATERIA_ADM, C_QUESTAO_ORDEM}

CUT_KEYS == {C_ATA, C_ATAS, C_MATERIA_ADM, C_QUESTAO_ORDEM}
C_CORRESP_CAB == "CORRESPONDENCIADESPACHADAPELO1SECRETARIO"
C_OFICIOS == "OFICIOS"
C_MANIFESTACAO == "MANIFESTACAO"
C_MANIFESTACOES == "MANIFESTACOES"
MANIF_KEYS == {C_MANIFESTACAO, C_MANIFESTACOES}
C_REQ_APROV == "REQUERIMENTOAPROVADO"
C_REQS_APROV == "REQUERIMENTOSAPROVADOS"
REQ_APROV_KEYS == {C_REQ_APROV, C_REQS_APROV}
C_PROPOSICOES_DE_LEI == "PROPOSICOESDELEI"
C_RESOLUCAO == "RESOLUCAO"
C_ERRATA == "ERRATA"
C_ERRATAS == "ERRATAS"
ERRATA_KEYS == {C_ERRATA, C_ERRATAS}
C_RECEB_EMENDAS_SUBST == "RECEBIMENTODEEMENDASESUBSTITUTIVO"
C_RECEB_EMENDAS_SUBSTS == "RECEBIMENTODEEMENDASESUBSTITUTIVOS"
C_RECEB_EMENDA == "RECEBIMENTODEEMENDA"
EMENDAS_KEYS == {C_RECEB_EMENDAS_SUBST, C_RECEB_EMENDAS_SUBSTS, C_RECEB_EMENDA}
C_LEITURA_COMUNICACOES == "LEITURADECOMUNICACOES"
C_DESPACHO_REQUERIMENTOS == "DESPACHODEREQUERIMENTOS"
C_DECISAO_PRESIDENCIA == "DECISAODAPRESIDENCIA"
C_ACORDO_LIDERES == "ACORDODELIDERES"
C_COMUNIC_PRESIDENCIA == "COMUNICACAODAPRESIDENCIA"
C_PROPOSICOES_NAO_RECEBIDAS == "PROPOSICOESNAORECEBIDAS"
C_REQUERIMENTOS == "REQUERIMENTOS"
C_PROJETO_DE_LEI == "PROJETODELEI"
C_PROJETOS_DE_LEI == "PROJETOSDELEI"

MAX_PAG_LEIS == 40

\* mutant: the label is never prefixed
prefix_tramitacao_omitido(label, in_tram) == label

prefix_tramitacao(label, in_tram) ==
    IF in_tram THEN "TRAMITAÇÃO DE PROPOSIÇÕES: " \o label ELSE label

\* mutant: the label never carries the TRAMITAÇÃO prefix
label_apresentacao_sem_prefixo(tipo_bloco, in_tram) ==
    IF tipo_bloco = "PL"
    THEN "APRESENTAÇÃO DE PROPOSIÇÕES: PROJETOS DE LEI"
    ELSE "APRESENTAÇÃO DE PROPOSIÇÕES: REQUERIMENTOS"

label_apresentacao(tipo_bloco, in_tram) ==
    prefix_tramitacao(
        IF tipo_bloco = "PL"
        THEN "APRESENTAÇÃO DE PROPOSIÇÕES: PROJETOS DE LEI"
        ELSE "APRESENTAÇÃO DE PROPOSIÇÕES: REQUERIMENTOS",
        in_tram)

(***************************************************************************)
(* Classifier: the cascade applied to line idx of the page.                *)
(* s is the parser state before the line; the result holds the state       *)
(* after the line and the events appended (none or one).                   *)
(***************************************************************************)
EstadoInicial ==
    [in_tramitacao |-> FALSE, sub_tramitacao |-> None,
     apresentacao_ativa |-> FALSE, sub_apresentacao |-> None,
     viu_corresp_cab |-> FALSE, pegou_leis |-> FALSE, ordem |-> 0]

\* mutant: the APRESENTAÇÃO context survives the reset
encerra_contextos_parcial(s) ==
    [s EXCEPT !.in_tramitacao = FALSE, !.sub_tramitacao = None,
              !.viu_corresp_cab = FALSE]

\* mutant: the CORRESPONDÊNCIA header flag survives the reset
encerra_contextos_sem_corresp(s) ==
    [s EXCEPT !.in_tramitacao = FALSE, !.sub_tramitacao = None,
              !.apresentacao_ativa = FALSE, !.sub_apresentacao = None]

\* "encerra contextos"
encerra_contextos(s) ==
    [s EXCEPT !.in_tramitacao = FALSE, !.sub_tramitacao = None,
              !.apresentacao_ativa = FALSE, !.sub_apresentacao = None,
              !.viu_corresp_cab = FALSE]

\* mutant: the header leaves an open APRESENTAÇÃO context alone
abre_tramitacao_sem_apresentacao(s) ==
    [s EXCEPT !.in_tramitacao = TRUE, !.sub_tramitacao = None,
              !.viu_corresp_cab = FALSE]

\* the TRAMITAÇÃO header
abre_tramitacao(s) ==
    [s EXCEPT !.in_tramitacao = TRUE, !.sub_tramitacao = None,
              !.apresentacao_ativa = FALSE, !.sub_apresentacao = None,
              !.viu_corresp_cab = FALSE]

\* mutant: the marker always opens the APRESENTAÇÃO context
marca_sub_tramitacao_sempre_ativa(s, c) ==
    [s EXCEPT !.sub_tramitacao = c,
              !.apresentacao_ativa = TRUE,
              !.sub_apresentacao = None,
              !.viu_corresp_cab = FALSE]

\* RECEBIMENTO / APRESENTAÇÃO inside TRAMITAÇÃO
marca_sub_tramitacao(s, c) ==
    [s EXCEPT !.sub_tramitacao = c,
              !.apresentacao_ativa = (c = C_APRESENTACAO),
              !.sub_apresentacao = None,
              !.viu_corresp_cab = FALSE]

\* mutant: the subtype of the previous APRESENTAÇÃO block is kept
marca_apresentacao_sem_limpar(s) ==
    [s EXCEPT !.apresentacao_ativa = TRUE]

\* APRESENTAÇÃO outside TRAMITAÇÃO
marca_apresentacao(s) ==
    [s EXCEPT !.apresentacao_ativa = TRUE, !.sub_apresentacao = None]

\* "corte natural": falls through to the rest of the cascade
corte_natural(s, c) ==
    IF s.apresentacao_ativa /\ c \in {C_TRAMITACAO, C_ATA, C_ATAS, C_MATERIA_ADM}
    THEN [s EXCEPT !.apresentacao_ativa = FALSE, !.sub_apresentacao = None]
    ELSE s

gatilho_PL(k1, k2, k3) ==
    \/ StartsWith(k1, C_PROJETO_DE_LEI) \/ StartsWith(k1, C_PROJETOS_DE_LEI)
    \/ StartsWith(k2, C_PROJETO_DE_LEI) \/ StartsWith(k2, C_PROJETOS_DE_LEI)
    \/ StartsWith(k3, C_PROJETO_DE_LEI) \/ StartsWith(k3, C_PROJETOS_DE_LEI)

\* mutant: the windows are compared with the key, not tested for the prefix
gatilho_REQ_exato(k1, k2, k3) ==
    \/ Join(k1) = C_REQUERIMENTOS
    \/ Join(k2) = C_REQUERIMENTOS
    \/ Join(k3) = C_REQUERIMENTOS

gatilho_REQ(k1, k2, k3) ==
    \/ StartsWith(k1, C_REQUERIMENTOS)
    \/ StartsWith(k2, C_REQUERIMENTOS)
    \/ StartsWith(k3, C_REQUERIMENTOS)

\* mutant: the compact key is taken for the upper-cased text
ln_upper_compacto(ln) == compact_key(ln)

\* ln.upper().strip(): the upper-cased words, single-spaced
ln_upper(ln) == JoinSp([k \in 1..Len(ln) |-> Upper(ln[k])])

\* mutant: the one-shot flag is not tested
cond_leis_sem_flag(s, pnum, ln_up) ==
    /\ pnum <= MAX_PAG_LEIS
    /\ (ln_up = "LEI" \/ ln_up = "LEIS")

\* mutant: the page ceiling is not tested
cond_leis_sem_teto(s, pnum, ln_up) ==
    /\ ~s.pegou_leis
    /\ (ln_up = "LEI" \/ ln_up = "LEIS")

\* the condition of the LEIS PROMULGADAS branch
cond_leis(s, pnum, ln_up) ==
    /\ ~s.pegou_leis
    /\ pnum <= MAX_PAG_LEIS
    /\ (ln_up = "LEI" \/ ln_up = "LEIS")

\* the direct OUT branches that test c alone and emit a fixed label
label_direto(c) ==
    IF c \in MANIF_KEYS THEN "MANIFESTAÇÕES"
    ELSE IF c \in REQ_APROV_KEYS THEN "REQUERIMENTOS APROVADOS"
    ELSE IF c = C_PROPOSICOES_DE_LEI THEN "PROPOSIÇÕES DE LEI"
    ELSE IF c = C_RESOLUCAO THEN "RESOLUÇÃO"
    ELSE IF c \in ERRATA_KEYS THEN "ERRATAS"
    ELSE IF c \in EMENDAS_KEYS THEN "EMENDAS OU SUBSTITUTIVOS PUBLICADOS"
    ELSE IF c = C_ACORDO_LIDERES THEN "ACORDO DE LÍDERES"
    ELSE IF c = C_LEITURA_COMUNICACOES THEN "LEITURA DE COMUNICAÇÕES"
    ELSE IF c = C_DESPACHO_REQUERIMENTOS THEN "DESPACHO DE REQUERIMENTOS"
    ELSE IF c = C_DECISAO_PRESIDENCIA THEN "DECISÃO DA PRESIDÊNCIA"
    ELSE IF c = C_PROPOSICOES_NAO_RECEBIDAS THEN "PROPOSIÇÕES NÃO RECEBIDAS"
    ELSE None

classifica(s, ls, idx, pnum) ==
    LET ln == ls[idx]
        ln_up == ln_upper(ln)
        cw == compact_words(ln)
        c == compact_key(ln)
        top_flag == is_top_event(idx, ls)
        k1 == win_words(ls, idx, 1)
        k2 == win_words(ls, idx, 2)
        k3 == win_words(ls, idx, 3)
        n == s.ordem + 1
        Cut(t) == [s |-> [t EXCEPT !.ordem = n],
                   ev |-> << <<pnum, n, "CUT", None, FALSE, top_flag>> >>]
        Out(t, label) == [s |-> [t EXCEPT !.ordem = n],
                          ev |-> << <<pnum, n, "OUT", label, TRUE, top_flag>> >>]
        Nada(t) == [s |-> t, ev |-> <<>>]
        s5 == corte_natural(s, c)
    IN
    IF c \in CUT_KEYS THEN Cut(encerra_contextos(s))
    ELSE IF StartsWith(cw, "PARECER") THEN Cut(encerra_contextos(s))
    ELSE IF c = C_TRAMITACAO THEN Cut(abre_tramitacao(s))
    ELSE IF s.in_tramitacao /\ (c = C_RECEBIMENTO \/ c = C_APRESENTACAO)
         THEN Cut(marca_sub_tramitacao(s, c))
    ELSE IF (~s.in_tramitacao) /\ c = C_APRESENTACAO THEN Nada(marca_apresentacao(s))
    ELSE IF c = C_CORRESP_CAB THEN Nada([s5 EXCEPT !.viu_corresp_cab = TRUE])
    ELSE IF s5.viu_corresp_cab /\ c = C_OFICIOS
         THEN Out(encerra_contextos(s5), "CORRESPONDÊNCIA: OFÍCIOS")
    ELSE IF s5.apresentacao_ativa /\ gatilho_PL(k1, k2, k3)
         THEN IF s5.sub_apresentacao # "PL"
              THEN Out([s5 EXCEPT !.sub_apresentacao = "PL"],
                       label_apresentacao("PL", s5.in_tramitacao))
              ELSE Nada(s5)
    ELSE IF s5.apresentacao_ativa /\ gatilho_REQ(k1, k2, k3)
         THEN IF s5.sub_apresentacao # "REQ"
              THEN Out([s5 EXCEPT !.sub_apresentacao = "REQ"],
                       label_apresentacao("REQ", s5.in_tramitacao))
              ELSE Nada(s5)
    ELSE IF c = C_OFICIOS THEN Out(encerra_contextos(s5), "OFÍCIOS")
    ELSE IF cond_leis(s5, pnum, ln_up)
         THEN Out([encerra_contextos(s5) EXCEPT !.pegou_leis = TRUE], "LEIS PROMULGADAS")
    ELSE IF c = C_COMUNIC_PRESIDENCIA
         THEN Out(encerra_contextos(s5),
                  prefix_tramitacao("COMUNICAÇÃO DA PRESIDÊNCIA", s5.in_tramitacao))
    ELSE IF label_direto(c) # None THEN Out(encerra_contextos(s5), label_direto(c))
    ELSE Nada(s5)

\* the cascade without the "corte natural" step of lines 681-684
classifica_sem_corte(s, ls, idx, pnum) ==
    LET ln == ls[idx]
        ln_up == ln_upper(ln)
        cw == compact_words(ln)
        c == compact_key(ln)
        top_flag == is_top_event(idx, ls)
        k1 == win_words(ls, idx, 1)
        k2 == win_words(ls, idx, 2)
        k3 == win_words(ls, idx, 3)
        n == s.ordem + 1
        Cut(t) == [s |-> [t EXCEPT !.ordem = n],
                   ev |-> << <<pnum, n, "CUT", None, FALSE, top_flag>> >>]
        Out(t, label) == [s |-> [t EXCEPT !.ordem = n],
                          ev |-> << <<pnum, n, "OUT", label, TRUE, top_flag>> >>]
        Nada(t) == [s |-> t, ev |-> <<>>]
        s5 == s
    IN
    IF c \in CUT_KEYS THEN Cut(encerra_contextos(s))
    ELSE IF StartsWith(cw, "PARECER") THEN Cut(encerra_contextos(s))
    ELSE IF c = C_TRAMITACAO THEN Cut(abre_tramitacao(s))
    ELSE IF s.in_tramitacao /\ (c = C_RECEBIMENTO \/ c = C_APRESENTACAO)
         THEN Cut(marca_sub_tramitacao(s, c))
    ELSE IF (~s.in_tramitacao) /\ c = C_APRESENTACAO THEN Nada(marca_apresentacao(s))
    ELSE IF c = C_CORRESP_CAB THEN Nada([s5 EXCEPT !.viu_corresp_cab = TRUE])
    ELSE IF s5.viu_corresp_cab /\ c = C_OFICIOS
         THEN Out(encerra_contextos(s5), "CORRESPONDÊNCIA: OFÍCIOS")
    ELSE IF s5.apresentacao_ativa /\ gatilho_PL(k1, k2, k3)
         THEN IF s5.sub_apresentacao # "PL"
              THEN Out([s5 EXCEPT !.sub_apresentacao = "PL"],
                       label_apresentacao("PL", s5.in_tramitacao))
              ELSE Nada(s5)
    ELSE IF s5.apresentacao_ativa /\ gatilho_REQ(k1, k2, k3)
         THEN IF s5.sub_apresentacao # "REQ"
              THEN Out([s5 EXCEPT !.sub_apresentacao = "REQ"],
                       label_apresentacao("REQ", s5.in_tramitacao))
              ELSE Nada(s5)
    ELSE IF c = C_OFICIOS THEN Out(encerra_contextos(s5), "OFÍCIOS")
    ELSE IF cond_leis(s5, pnum, ln_up)
         THEN Out([encerra_contextos(s5) EXCEPT !.pegou_leis = TRUE], "LEIS PROMULGADAS")
    ELSE IF c = C_COMUNIC_PRESIDENCIA
         THEN Out(encerra_contextos(s5),
                  prefix_tramitacao("COMUNICAÇÃO DA PRESIDÊNCIA", s5.in_tramitacao))
    ELSE IF label_direto(c) # None THEN Out(encerra_contextos(s5), label_direto(c))
    ELSE Nada(s5)

(***************************************************************************)
(* Post-processing: sort and same-page dedup of OUT events.                *)
(***************************************************************************)
\* key=lambda x: (x[0], x[1])
chave_leq(a, b) == a[1] < b[1] \/ (a[1] = b[1] /\ a[2] <= b[2])

RECURSIVE insere_ordenado(_, _)
insere_ordenado(e, s) ==
    IF s = <<>> THEN <<e>>
    ELSE IF chave_leq(Head(s), e) THEN <<Head(s)>> \o insere_ordenado(e, Tail(s))
    ELSE <<e>> \o s

\* mutant: the sort is left out
sort_eventos_omitido(evs) == evs

\* eventos.sort(...): stable
RECURSIVE sort_eventos(_)
sort_eventos(evs) ==
    IF evs = <<>> THEN <<>>
    ELSE insere_ordenado(evs[Len(evs)], sort_eventos(SubSeq(evs, 1, Len(evs) - 1)))

KEEP_DUP_OUT == {"DECISÃO DA PRESIDÊNCIA"}

\* mutant: the index of the first occurrence of the key is recorded
last_idx_primeiro(evs, k) ==
    LET S == {j \in 1..Len(evs) :
                /\ evs[j][3] = "OUT"
                /\ evs[j][4] \notin KEEP_DUP_OUT
                /\ evs[j][1] = evs[k][1]
                /\ evs[j][4] = evs[k][4]}
    IN IF S = {} THEN k ELSE CHOOSE j \in S : \A m \in S : m >= j

\* _last_idx.get(key, k) for the key of event k
last_idx(evs, k) ==
    LET S == {j \in 1..Len(evs) :
                /\ evs[j][3] = "OUT"
                /\ evs[j][4] \notin KEEP_DUP_OUT
                /\ evs[j][1] = evs[k][1]
                /\ evs[j][4] = evs[k][4]}
    IN IF S = {} THEN k ELSE CHOOSE j \in S : \A m \in S : m <= j

\* mutant: no event is ever dropped
descarta_nunca(evs, k) == FALSE

\* the test that drops event k
descarta(evs, k) ==
    /\ evs[k][3] = "OUT"
    /\ evs[k][4] \notin KEEP_DUP_OUT
    /\ last_idx(evs, k) # k

eventos_filtrados(evs) ==
    LET RECURSIVE F(_)
        F(k) == IF k > Len(evs) THEN <<>>
                ELSE (IF descarta(evs, k) THEN <<>> ELSE <<evs[k]>>) \o F(k + 1)
    IN F(1)

(***************************************************************************)
(* Intervals.                                                              *)
(***************************************************************************)
\* mutant: the last section is closed on its own first page
pag_fim_regra_sem_total(evs, idx, total_pag_fisica) ==
    LET e == evs[idx] IN
    IF idx + 1 > Len(evs) THEN e[1]
    ELSE LET prox == evs[idx + 1] IN
         IF prox[1] = e[1] THEN e[1]
         ELSE IF prox[6] THEN prox[1] - 1
         ELSE IF e[5] THEN prox[1] ELSE prox[1] - 1

\* mutant: the top-of-page flag of the next event is not tested
pag_fim_regra_sem_topo(evs, idx, total_pag_fisica) ==
    LET e == evs[idx] IN
    IF idx + 1 > Len(evs) THEN total_pag_fisica
    ELSE LET prox == evs[idx + 1] IN
         IF prox[1] = e[1] THEN e[1]
         ELSE IF e[5] THEN prox[1] ELSE prox[1] - 1

\* mutant: the overlap flag of the event is not tested
pag_fim_regra_sem_sobreposto(evs, idx, total_pag_fisica) ==
    LET e == evs[idx] IN
    IF idx + 1 > Len(evs) THEN total_pag_fisica
    ELSE LET prox == evs[idx + 1] IN
         IF prox[1] = e[1] THEN e[1]
         ELSE prox[1] - 1

\* mutant: a next event on the same page is not told apart
pag_fim_regra_sem_mesma_pagina(evs, idx, total_pag_fisica) ==
    LET e == evs[idx] IN
    IF idx + 1 > Len(evs) THEN total_pag_fisica
    ELSE LET prox == evs[idx + 1] IN
         IF prox[6] THEN prox[1] - 1
         ELSE IF e[5] THEN prox[1] ELSE prox[1] - 1

\* mutant: every interval runs to the last physical page
pag_fim_regra_sempre_total(evs, idx, total_pag_fisica) == total_pag_fisica

\* pag_fim of the OUT event at idx, before the clamp
pag_fim_regra(evs, idx, total_pag_fisica) ==
    LET e == evs[idx] IN
    IF idx + 1 > Len(evs) THEN total_pag_fisica
    ELSE LET prox == evs[idx + 1] IN
         IF prox[1] = e[1] THEN e[1]
         ELSE IF prox[6] THEN prox[1] - 1
         ELSE IF e[5] THEN prox[1] ELSE prox[1] - 1

\* mutant: the clamp is left out
clamp_ausente(pag_fim, pag_ini) == pag_fim

\* if pag_fim < pag_ini: pag_fim = pag_ini
clamp(pag_fim, pag_ini) == IF pag_fim < pag_ini THEN pag_ini ELSE pag_fim

\* f"{pag_ini} - {pag_fim}" if pag_ini != pag_fim else f"{pag_ini}":
\* the numbers the label is made of
intervalo(pag_ini, pag_fim) ==
    IF pag_ini # pag_fim THEN <<pag_ini, pag_fim>> ELSE <<pag_ini>>

DEDUP_ULTIMO_NA_PAG == {"MANIFESTAÇÕES"}
NAO_DEDUPLICAR == {"DECISÃO DA PRESIDÊNCIA"}

\* mutant: every interval is appended
acrescenta_sempre(its, intv, label_out) == Append(its, <<intv, label_out>>)

\* the replace-or-append at the end of the loop body
acrescenta(its, intv, label_out) ==
    IF label_out \in DEDUP_ULTIMO_NA_PAG /\ label_out \notin NAO_DEDUPLICAR
    THEN IF its # <<>> /\ its[Len(its)][2] = label_out
         THEN [its EXCEPT ![Len(its)] = <<intv, label_out>>]
         ELSE Append(its, <<intv, label_out>>)
    ELSE Append(its, <<intv, label_out>>)

\* the interval loop over eventos
monta_itens(evs, total_pag_fisica) ==
    LET RECURSIVE L(_, _)
        L(idx, its) ==
            IF idx > Len(evs) THEN its
            ELSE IF evs[idx][3] # "OUT" THEN L(idx + 1, its)
            ELSE LET pag_ini == evs[idx][1]
                     pag_fim == clamp(pag_fim_regra(evs, idx, total_pag_fisica), pag_ini)
                 IN L(idx + 1, acrescenta(its, intervalo(pag_ini, pag_fim), evs[idx][4]))
    IN L(1, <<>>)

(***************************************************************************)
(* Lines of the explored documents.                                        *)
(***************************************************************************)
L_TEXTO == <<"TEXTO">>
L_ATA == <<"ATA">>
L_PARECER == <<"PARECER", "SOBRE">>
L_TRAMITACAO == <<"TRAMITAÇÃO", "DE", "PROPOSIÇÕES">>
L_RECEBIMENTO == <<"RECEBIMENTO", "DE", "PROPOSIÇÕES">>
L_APRESENTACAO == <<"APRESENTAÇÃO", "DE", "PROPOSIÇÕES">>
L_CORRESP == <<"CORRESPONDÊNCIA", "DESPACHADA", "PELO", "1º-SECRETÁRIO">>
L_PL == <<"PROJETOS", "DE", "LEI">>
L_REQ == <<"REQUERIMENTOS">>
L_OFICIOS == <<"OFÍCIOS">>
L_MANIFESTACAO == <<"MANIFESTAÇÃO">>
L_MANIFESTACOES == <<"MANIFESTAÇÕES">>
L_DECISAO == <<"DECISÃO", "DA", "PRESIDÊNCIA">>
L_COMUNIC == <<"COMUNICAÇÃO", "DA", "PRESIDÊNCIA">>
L_LEI == <<"LEI">>
L_LEIS == <<"Leis">>
L_LEI_PONTO == <<"LEI.">>
L_TRACOS == <<"--">>
L_PAGINA(n) == <<"PÁGINA", ToString(n)>>

SeqsUpTo(S, n) == UNION {[1..k -> S] : k \in 0..n}

\* the pages whose body has at most MaxLines lines of vocab, preceded or not
\* by a header line with a printed number of hdrs
Paginas(vocab, hdrs) ==
    {h \o b : h \in {<<>>} \cup {<<L_PAGINA(n)>> : n \in hdrs},
              b \in SeqsUpTo(vocab, MaxLines)}

(***************************************************************************)
(* State machine of main.                                                  *)
(***************************************************************************)
Estado ==
    [in_tramitacao |-> in_tramitacao, sub_tramitacao |-> sub_tramitacao,
     apresentacao_ativa |-> apresentacao_ativa, sub_apresentacao |-> sub_apresentacao,
     viu_corresp_cab |-> viu_corresp_cab, pegou_leis |-> pegou_leis, ordem |-> ordem]

\* _with_backoff has not been called
BackoffParado ==
    /\ attempt = 0
    /\ msg = <<>>
    /\ sleep_s = 0
    /\ chamadas = 0
    /\ retorno = None
    /\ bpc = "parado"

\* the state before the page loop, for a document of n pages, n in N
InitDoc(N) ==
    /\ npages \in N
    /\ i = 0
    /\ linhas = <<>>
    /\ pag_num = 0
    /\ li = 1
    /\ eventos = <<>>
    /\ ordem = 0
    /\ in_tramitacao = FALSE
    /\ sub_tramitacao = None
    /\ apresentacao_ativa = FALSE
    /\ sub_apresentacao = None
    /\ viu_corresp_cab = FALSE
    /\ pegou_leis = FALSE
    /\ emitidos = <<>>
    /\ itens = <<>>
    /\ pc = "page"
    /\ BackoffParado

Init == InitDoc(0..MaxPages)

\* for i, page in enumerate(reader.pages): the lines and the printed number
LePagina(pags) ==
    /\ pc = "page"
    /\ i < npages
    /\ \E ls \in pags :
          /\ linhas' = ls
          /\ pag_num' = primeira_pagina_num(ls, i + 1)
          /\ pc' = IF ls = <<>> THEN "page" ELSE "line"
    /\ i' = i + 1
    /\ li' = 1
    /\ UNCHANGED bvars
    /\ UNCHANGED <<npages, eventos, ordem, in_tramitacao, sub_tramitacao,
                   apresentacao_ativa, sub_apresentacao, viu_corresp_cab,
                   pegou_leis, emitidos, itens>>

\* mutant: the counter is not advanced when an event is appended
ClassificaLinha_ordem_parada ==
    /\ pc = "line"
    /\ LET r == classifica(Estado, linhas, li, pag_num) IN
          /\ eventos' = eventos \o r.ev
          /\ emitidos' = emitidos \o r.ev
          /\ ordem' = ordem
          /\ in_tramitacao' = r.s.in_tramitacao
          /\ sub_tramitacao' = r.s.sub_tramitacao
          /\ apresentacao_ativa' = r.s.apresentacao_ativa
          /\ sub_apresentacao' = r.s.sub_apresentacao
          /\ viu_corresp_cab' = r.s.viu_corresp_cab
          /\ pegou_leis' = r.s.pegou_leis
    /\ li' = li + 1
    /\ pc' = IF li = Len(linhas) THEN "page" ELSE "line"
    /\ UNCHANGED bvars
    /\ UNCHANGED <<npages, i, linhas, pag_num, itens>>

\* mutant: the events are appended with fim_sobreposto = False
ClassificaLinha_sem_sobreposicao ==
    /\ pc = "line"
    /\ LET r == classifica(Estado, linhas, li, pag_num)
           ev == [k \in 1..Len(r.ev) |-> [r.ev[k] EXCEPT ![5] = FALSE]]
       IN /\ eventos' = eventos \o ev
          /\ emitidos' = emitidos \o ev
          /\ ordem' = r.s.ordem
          /\ in_tramitacao' = r.s.in_tramitacao
          /\ sub_tramitacao' = r.s.sub_tramitacao
          /\ apresentacao_ativa' = r.s.apresentacao_ativa
          /\ sub_apresentacao' = r.s.sub_apresentacao
          /\ viu_corresp_cab' = r.s.viu_corresp_cab
          /\ pegou_leis' = r.s.pegou_leis
    /\ li' = li + 1
    /\ pc' = IF li = Len(linhas) THEN "page" ELSE "line"
    /\ UNCHANGED bvars
    /\ UNCHANGED <<npages, i, linhas, pag_num, itens>>

\* one iteration of "for li, ln in enumerate(linhas)"
ClassificaLinha ==
    /\ pc = "line"
    /\ LET r == classifica(Estado, linhas, li, pag_num) IN
          /\ eventos' = eventos \o r.ev
          /\ emitidos' = emitidos \o r.ev
          /\ ordem' = r.s.ordem
          /\ in_tramitacao' = r.s.in_tramitacao
          /\ sub_tramitacao' = r.s.sub_tramitacao
          /\ apresentacao_ativa' = r.s.apresentacao_ativa
          /\ sub_apresentacao' = r.s.sub_apresentacao
          /\ viu_corresp_cab' = r.s.viu_corresp_cab
          /\ pegou_leis' = r.s.pegou_leis
    /\ li' = li + 1
    /\ pc' = IF li = Len(linhas) THEN "page" ELSE "line"
    /\ UNCHANGED bvars
    /\ UNCHANGED <<npages, i, linhas, pag_num, itens>>

\* eventos.sort(key=lambda x: (x[0], x[1]))
OrdenaEventos ==
    /\ pc = "page"
    /\ i = npages
    /\ eventos' = sort_eventos(eventos)
    /\ pc' = "filter"
    /\ UNCHANGED bvars
    /\ UNCHANGED <<npages, i, linhas, pag_num, li, ordem, in_tramitacao,
                   sub_tramitacao, apresentacao_ativa, sub_apresentacao,
                   viu_corresp_cab, pegou_leis, emitidos, itens>>

\* eventos = _eventos_filtrados
FiltraDuplicados ==
    /\ pc = "filter"
    /\ eventos' = eventos_filtrados(eventos)
    /\ pc' = "build"
    /\ UNCHANGED bvars
    /\ UNCHANGED <<npages, i, linhas, pag_num, li, ordem, in_tramitacao,
                   sub_tramitacao, apresentacao_ativa, sub_apresentacao,
                   viu_corresp_cab, pegou_leis, emitidos, itens>>

\* the interval loop; total_pag_fisica = len(reader.pages)
MontaItens ==
    /\ pc = "build"
    /\ itens' = monta_itens(eventos, npages)
    /\ pc' = "done"
    /\ UNCHANGED bvars
    /\ UNCHANGED <<npages, i, linhas, pag_num, li, eventos, ordem, in_tramitacao,
                   sub_tramitacao, apresentacao_ativa, sub_apresentacao,
                   viu_corresp_cab, pegou_leis, emitidos>>

PosProcessa == OrdenaEventos \/ FiltraDuplicados \/ MontaItens

(***************************************************************************)
(* Spec: documents of section titles, with printed page numbers that may   *)
(* differ from the physical ones.                                          *)
(***************************************************************************)
VocabSecoes == {L_TEXTO, L_ATA, L_MANIFESTACOES, L_DECISAO, L_OFICIOS}
\* a printed number above every physical page number
NumImpresso == MaxPages + 1
PaginasSecoes == Paginas(VocabSecoes, {NumImpresso})

LePaginaSecoes == LePagina(PaginasSecoes)

Next == LePaginaSecoes \/ ClassificaLinha \/ OrdenaEventos \/ FiltraDuplicados \/ MontaItens

Spec == Init /\ [][Next]_vars

(***************************************************************************)
(* Accessors used by the properties.                                       *)
(***************************************************************************)
PagIni(item) == item[1][1]
PagFim(item) == item[1][Len(item[1])]
Rotulo(item) == item[2]
PosProcessado == pc \in {"build", "done"}

(***************************************************************************)
(* C1: after the sort and the same-page dedup, every two adjacent events   *)
(* e1, e2 satisfy (e1.page, e1.sequence) <= (e2.page, e2.sequence), also   *)
(* when the printed page numbers are not monotonic in physical order.      *)
(***************************************************************************)
C1_EventOrdering ==
    PosProcessado =>
        \A k \in 1..(Len(eventos) - 1) :
            \/ eventos[k][1] < eventos[k + 1][1]
            \/ /\ eventos[k][1] = eventos[k + 1][1]
               /\ eventos[k][2] <= eventos[k + 1][2]

\* a document whose printed numbers decrease was sorted
C1_Witness ==
    /\ pc = "done"
    /\ Len(eventos) >= 2
    /\ \E a, b \in 1..Len(emitidos) : a < b /\ emitidos[a][1] > emitidos[b][1]

(***************************************************************************)
(* C2: every interval of the output has page_start <= page_end.            *)
(***************************************************************************)
C2_StartLeqEnd ==
    pc = "done" => \A k \in 1..Len(itens) : PagIni(itens[k]) <= PagFim(itens[k])

\* an OUT event whose closing rule gives an end before its start
C2_Witness ==
    /\ pc = "done"
    /\ itens # <<>>
    /\ \E k \in 1..Len(eventos) :
          /\ eventos[k][3] = "OUT"
          /\ pag_fim_regra(eventos, k, npages) < eventos[k][1]

(***************************************************************************)
(* C3 as stated: the interval of the final event of the post-processed     *)
(* list ends at total_physical_pages.                                      *)
(***************************************************************************)
UltimoEhOut == eventos # <<>> /\ eventos[Len(eventos)][3] = "OUT"

C3_Original ==
    (pc = "done" /\ UltimoEhOut) =>
        /\ itens # <<>>
        /\ PagFim(itens[Len(itens)]) = npages

(***************************************************************************)
(* C3 amended: the interval of the final event ends at                     *)
(* total_physical_pages, or at the event's own printed page when that      *)
(* page number is greater than total_physical_pages.                       *)
(***************************************************************************)
C3_LastSection ==
    (pc = "done" /\ UltimoEhOut) =>
        /\ itens # <<>>
        /\ Rotulo(itens[Len(itens)]) = eventos[Len(eventos)][4]
        /\ PagIni(itens[Len(itens)]) = eventos[Len(eventos)][1]
        /\ PagFim(itens[Len(itens)]) =
              IF eventos[Len(eventos)][1] > npages
              THEN eventos[Len(eventos)][1] ELSE npages

\* both cases of the final section: below and above the physical count
C3_Witness ==
    /\ pc = "done"
    /\ UltimoEhOut
    /\ eventos[Len(eventos)][1] > npages

C3_WitnessBelow ==
    /\ pc = "done"
    /\ UltimoEhOut
    /\ eventos[Len(eventos)][1] < npages

(***************************************************************************)
(* C4: in the final output, for every label other than "DECISÃO DA         *)
(* PRESIDÊNCIA", no two intervals have the same (page_start, label).       *)
(***************************************************************************)
C4_Dedup ==
    pc = "done" =>
        \A a, b \in 1..Len(itens) :
            (/\ a < b
             /\ Rotulo(itens[a]) = Rotulo(itens[b])
             /\ Rotulo(itens[a]) # "DECISÃO DA PRESIDÊNCIA")
            => PagIni(itens[a]) # PagIni(itens[b])

\* the same title was emitted twice for one printed page, with another
\* section between the two, and the allow-listed title was kept twice
C4_Witness ==
    /\ pc = "done"
    /\ \E a, b, c \in 1..Len(emitidos) :
          /\ a < b /\ b < c
          /\ emitidos[a][1] = emitidos[c][1] /\ emitidos[b][1] = emitidos[c][1]
          /\ emitidos[a][4] = emitidos[c][4]
          /\ emitidos[a][3] = "OUT"
          /\ emitidos[a][4] # "DECISÃO DA PRESIDÊNCIA"
          /\ emitidos[b][3] = "OUT"
          /\ emitidos[b][4] # emitidos[a][4]

(***************************************************************************)
(* SpecContexto: documents of context markers, printed numbers equal to    *)
(* the physical ones.                                                      *)
(***************************************************************************)
VocabContexto == {L_ATA, L_PARECER, L_TRAMITACAO, L_APRESENTACAO,
                  L_RECEBIMENTO, L_PL, L_OFICIOS}
PaginasContexto == Paginas(VocabContexto, {})

LePaginaContexto == LePagina(PaginasContexto)

NextContexto == LePaginaContexto \/ ClassificaLinha \/ PosProcessa

SpecContexto == Init /\ [][NextContexto]_vars

\* the step appends an event; UltimoEmitido is that event in the next state
Emite == Len(emitidos') > Len(emitidos)
UltimoEmitido == emitidos[Len(emitidos)]

RotulosApresentacao ==
    {"APRESENTAÇÃO DE PROPOSIÇÕES: PROJETOS DE LEI",
     "APRESENTAÇÃO DE PROPOSIÇÕES: REQUERIMENTOS",
     "TRAMITAÇÃO DE PROPOSIÇÕES: APRESENTAÇÃO DE PROPOSIÇÕES: PROJETOS DE LEI",
     "TRAMITAÇÃO DE PROPOSIÇÕES: APRESENTAÇÃO DE PROPOSIÇÕES: REQUERIMENTOS"}

OutNaoApresentacao(e) == e[3] = "OUT" /\ e[4] \notin RotulosApresentacao

(***************************************************************************)
(* C5 as stated: immediately after the classifier emits any CUT event, or  *)
(* any OUT event other than an APRESENTAÇÃO-subtype event, in_tramitacao   *)
(* and apresentacao_ativa are both false.                                  *)
(***************************************************************************)
C5_Original ==
    [][ (Emite /\ (UltimoEmitido'[3] = "CUT" \/ OutNaoApresentacao(UltimoEmitido')))
            => (~in_tramitacao' /\ ~apresentacao_ativa') ]_vars

(***************************************************************************)
(* C5 amended: both flags are false immediately after a CUT event of a     *)
(* CUT-class key (ATA, ATAS, MATÉRIA ADMINISTRATIVA, QUESTÃO DE ORDEM,     *)
(* PARECER...) and after any OUT event other than an APRESENTAÇÃO-subtype  *)
(* event; after the CUT of the TRAMITAÇÃO header in_tramitacao is true and *)
(* apresentacao_ativa false; after the CUT of a RECEBIMENTO / APRESENTAÇÃO *)
(* marker inside TRAMITAÇÃO in_tramitacao is true and apresentacao_ativa   *)
(* is true iff the marker is APRESENTAÇÃO.                                 *)
(***************************************************************************)
C5_ContextReset ==
    [][ Emite =>
          LET e == UltimoEmitido'
              palavras == compact_words(linhas[li])
              chave == Join(palavras)
          IN
          /\ (OutNaoApresentacao(e)
              \/ (e[3] = "CUT"
                  /\ (chave \in {"ATA", "ATAS", "MATERIAADMINISTRATIVA", "QUESTAODEORDEM"}
                      \/ palavras[1] = "PARECER")))
                => (~in_tramitacao' /\ ~apresentacao_ativa')
          /\ (e[3] = "CUT" /\ chave = "TRAMITACAODEPROPOSICOES")
                => (in_tramitacao' /\ ~apresentacao_ativa')
          /\ (e[3] = "CUT" /\ chave = "RECEBIMENTODEPROPOSICOES")
                => (in_tramitacao' /\ ~apresentacao_ativa')
          /\ (e[3] = "CUT" /\ chave = "APRESENTACAODEPROPOSICOES")
                => (in_tramitacao' /\ apresentacao_ativa')
      ]_vars

\* a CUT-class CUT and a plain OUT emitted right after an event of the
\* TRAMITAÇÃO / APRESENTAÇÃO context, which they closed
C5_Witness ==
    /\ Len(emitidos) >= 4
    /\ emitidos[Len(emitidos) - 1][4] =
          "TRAMITAÇÃO DE PROPOSIÇÕES: APRESENTAÇÃO DE PROPOSIÇÕES: PROJETOS DE LEI"
    /\ UltimoEmitido[4] = "OFÍCIOS"
    /\ ~in_tramitacao
    /\ ~apresentacao_ativa

C5_WitnessCut ==
    /\ Len(emitidos) >= 3
    /\ emitidos[Len(emitidos) - 1][3] = "CUT"
    /\ emitidos[Len(emitidos) - 1][2] = UltimoEmitido[2] - 1
    /\ UltimoEmitido[3] = "CUT"
    /\ pc \in {"line", "page"}
    /\ i >= 1
    /\ li >= 2
    /\ linhas[li - 1] = L_ATA
    /\ linhas[1] = L_APRESENTACAO
    /\ ~in_tramitacao
    /\ ~apresentacao_ativa

(***************************************************************************)
(* SpecCenarioA: the documents of scenario A.  Page 5 holds, in order, the *)
(* TRAMITAÇÃO header, the APRESENTAÇÃO marker, a PROJETOS DE LEI trigger,  *)
(* content, a REQUERIMENTOS trigger and content; OFÍCIOS is the first line *)
(* of page 6; no other line of the document is a marker.                   *)
(***************************************************************************)
Conteudo == SeqsUpTo({L_TEXTO, L_TRACOS}, MaxLines) \ {<<>>}

PaginasCenarioA(fisica) ==
    IF fisica = 5
    THEN {<<L_TRAMITACAO, L_APRESENTACAO, L_PL>> \o c1 \o <<L_REQ>> \o c2 :
             c1 \in Conteudo, c2 \in Conteudo}
    ELSE IF fisica = 6
    THEN {<<L_OFICIOS>> \o c : c \in SeqsUpTo({L_TEXTO}, MaxLines)}
    ELSE SeqsUpTo({L_TEXTO, L_TRACOS}, 1)

InitCenarioA == InitDoc({6, 7})

LePaginaCenarioA == LePagina(PaginasCenarioA(i + 1))

NextCenarioA == LePaginaCenarioA \/ ClassificaLinha \/ PosProcessa

SpecCenarioA == InitCenarioA /\ [][NextCenarioA]_vars

(***************************************************************************)
(* C6 as stated: the output of scenario A is exactly ("5", TRAMITAÇÃO ...  *)
(* PROJETOS DE LEI), ("5", TRAMITAÇÃO ... REQUERIMENTOS), ("5", "OFÍCIOS").*)
(***************************************************************************)
C6_Original ==
    pc = "done" =>
        itens = << << <<5>>, "TRAMITAÇÃO DE PROPOSIÇÕES: APRESENTAÇÃO DE PROPOSIÇÕES: PROJETOS DE LEI" >>,
                   << <<5>>, "TRAMITAÇÃO DE PROPOSIÇÕES: APRESENTAÇÃO DE PROPOSIÇÕES: REQUERIMENTOS" >>,
                   << <<5>>, "OFÍCIOS" >> >>

(***************************************************************************)
(* C6 amended: the output of scenario A is the two "5" intervals of the    *)
(* APRESENTAÇÃO subdivisions followed by the OFÍCIOS interval, which       *)
(* starts on page 6 and runs to the last physical page: "6" when page 6 is *)
(* the last page, "6 - N" for a document of N > 6 pages.                   *)
(***************************************************************************)
C6_CenarioA ==
    pc = "done" =>
        itens = << << <<5>>, "TRAMITAÇÃO DE PROPOSIÇÕES: APRESENTAÇÃO DE PROPOSIÇÕES: PROJETOS DE LEI" >>,
                   << <<5>>, "TRAMITAÇÃO DE PROPOSIÇÕES: APRESENTAÇÃO DE PROPOSIÇÕES: REQUERIMENTOS" >>,
                   << (IF npages = 6 THEN <<6>> ELSE <<6, npages>>), "OFÍCIOS" >> >>

\* the scenario was run to its end: five events, three intervals
C6_Witness ==
    /\ pc = "done"
    /\ i = npages
    /\ Len(emitidos) = 5
    /\ emitidos[5] = <<6, 5, "OUT", "OFÍCIOS", TRUE, TRUE>>
    /\ Len(itens) = 3

(***************************************************************************)
(* SpecCenarioB: the documents of scenario B.  The first page holds a      *)
(* MANIFESTAÇÃO line as its first relevant line and a MANIFESTAÇÕES line   *)
(* later on the page; the pages after it are arbitrary.                    *)
(***************************************************************************)
PaginasCenarioB(fisica) ==
    IF fisica = 1
    THEN {h \o <<L_MANIFESTACAO>> \o c1 \o <<L_MANIFESTACOES>> \o c2 :
             h \in {<<>>, <<L_PAGINA(NumImpresso)>>},
             c1 \in SeqsUpTo({L_TEXTO}, 1), c2 \in SeqsUpTo({L_TEXTO}, 1)}
    ELSE Paginas({L_TEXTO, L_ATA, L_MANIFESTACOES, L_OFICIOS}, {})

InitCenarioB == InitDoc(1..MaxPages)

LePaginaCenarioB == LePagina(PaginasCenarioB(i + 1))

NextCenarioB == LePaginaCenarioB \/ ClassificaLinha \/ PosProcessa

SpecCenarioB == InitCenarioB /\ [][NextCenarioB]_vars

(***************************************************************************)
(* C7: when a MANIFESTAÇÃO marker and a later MANIFESTAÇÕES marker occur   *)
(* on the same printed page p, exactly one output interval labelled        *)
(* "MANIFESTAÇÕES" starts at p, and it is the one built from the last      *)
(* occurrence (closed by the successor of the last occurrence).            *)
(***************************************************************************)
C7_SamePageManif ==
    pc = "done" =>
        LET p == emitidos[1][1]
            S == {k \in 1..Len(itens) :
                     Rotulo(itens[k]) = "MANIFESTAÇÕES" /\ PagIni(itens[k]) = p}
            U == {k \in 1..Len(eventos) :
                     /\ eventos[k][1] = p
                     /\ eventos[k][4] = "MANIFESTAÇÕES"
                     /\ \A m \in 1..Len(emitidos) :
                           (emitidos[m][1] = p /\ emitidos[m][4] = "MANIFESTAÇÕES")
                               => emitidos[m][2] <= eventos[k][2]}
        IN
        /\ Cardinality(S) = 1
        /\ Cardinality(U) = 1
        /\ \A k \in S : \A u \in U :
              itens[k][1] = intervalo(p, clamp(pag_fim_regra(eventos, u, npages), p))

(***************************************************************************)
(* SpecLeis: documents of LEI / LEIS lines (exact, mixed case, and with    *)
(* punctuation), CUT, TRAMITAÇÃO and OUT markers, on pages printed below   *)
(* and above MAX_PAG_LEIS.                                                 *)
(***************************************************************************)
VocabLeis == {L_LEI, L_LEIS, L_LEI_PONTO, L_ATA, L_TRAMITACAO, L_OFICIOS}
NumAcimaLeis == MAX_PAG_LEIS + 1
PaginasLeis == Paginas(VocabLeis, {NumAcimaLeis})

LePaginaLeis == LePagina(PaginasLeis)

NextLeis == LePaginaLeis \/ ClassificaLinha \/ PosProcessa

SpecLeis == Init /\ [][NextLeis]_vars

NumLeis(evs) == Cardinality({k \in 1..Len(evs) : evs[k][4] = "LEIS PROMULGADAS"})

LinhaLeiExata(ln) == ln \in {<<"LEI">>, <<"LEIS">>, <<"Lei">>, <<"Leis">>}

(***************************************************************************)
(* C8: at most one "LEIS PROMULGADAS" event is emitted per document; it is *)
(* emitted only for a line whose uppercased text is exactly LEI or LEIS on *)
(* a page printed <= 40; once set, the one-shot flag stays set, whatever   *)
(* marker follows, and a later exact LEI / LEIS line emits no event.       *)
(***************************************************************************)
C8_LeisOneShot ==
    [][ /\ pegou_leis => pegou_leis'
        /\ NumLeis(emitidos') <= 1
        /\ (Emite /\ UltimoEmitido'[4] = "LEIS PROMULGADAS")
              => /\ LinhaLeiExata(linhas[li])
                 /\ pag_num <= 40
                 /\ ~pegou_leis
                 /\ pegou_leis'
        /\ (pc = "line" /\ pegou_leis /\ LinhaLeiExata(linhas[li]))
              => emitidos' = emitidos
      ]_vars

\* after the LEIS PROMULGADAS event and a later CUT, an exact LEI / LEIS
\* line on a page printed <= 40 was consumed and emitted nothing
C8_Witness ==
    /\ pegou_leis
    /\ pc \in {"line", "page"}
    /\ Len(emitidos) >= 2
    /\ NumLeis(emitidos) = 1
    /\ UltimoEmitido[3] = "CUT"
    /\ li >= 2
    /\ LinhaLeiExata(linhas[li - 1])
    /\ pag_num <= 40

\* an exact LEI line above the ceiling emitted nothing
C8_WitnessAcima ==
    /\ ~pegou_leis
    /\ pc \in {"line", "page"}
    /\ li >= 2
    /\ LinhaLeiExata(linhas[li - 1])
    /\ pag_num > 40

(***************************************************************************)
(* SpecSemMarcas: the documents of scenario D.  No line matches a rule of  *)
(* the cascade: content, dashes, page headers, and lines that are markers  *)
(* only inside a context that is never entered or only as exact text.      *)
(***************************************************************************)
VocabSemMarcas == {L_TEXTO, L_TRACOS, L_PL, L_RECEBIMENTO, L_LEI_PONTO}
PaginasSemMarcas == Paginas(VocabSemMarcas, {NumImpresso})

LePaginaSemMarcas == LePagina(PaginasSemMarcas)

NextSemMarcas == LePaginaSemMarcas \/ ClassificaLinha \/ PosProcessa

SpecSemMarcas == Init /\ [][NextSemMarcas]_vars

(***************************************************************************)
(* C9: for a document in which no line matches a recognized marker the     *)
(* classifier emits no event, the post-processing and the interval loop    *)
(* run to the end, and the final output is the empty list.                 *)
(***************************************************************************)
C9_SemEventos ==
    /\ emitidos = <<>>
    /\ eventos = <<>>
    /\ ordem = 0
    /\ itens = <<>>

\* a document with lines was read to its end and post-processed
C9_Witness ==
    /\ pc = "done"
    /\ npages >= 1
    /\ i = npages
    /\ Len(linhas) >= 2
    /\ itens = <<>>

(***************************************************************************)
(* The OUT events the classifier emitted, and the output they should give. *)
(***************************************************************************)
OutsEmitidos == {emitidos[k] : k \in {m \in 1..Len(emitidos) : emitidos[m][3] = "OUT"}}

Antes(a, b) == a[1] < b[1] \/ (a[1] = b[1] /\ a[2] < b[2])

\* the output holds one pair per event of S, in (page, sequence) order
Corresponde(S) ==
    /\ Len(itens) = Cardinality(S)
    /\ \A e \in S :
          LET k == 1 + Cardinality({f \in S : Antes(f, e)}) IN
          /\ PagIni(itens[k]) = e[1]
          /\ Rotulo(itens[k]) = e[4]

\* e is allow-listed or the last OUT event of its (page, label)
Sobrevive(e) ==
    \/ e[4] = "DECISÃO DA PRESIDÊNCIA"
    \/ ~\E f \in OutsEmitidos : f[1] = e[1] /\ f[4] = e[4] /\ f[2] > e[2]

Sobreviventes == {e \in OutsEmitidos : Sobrevive(e)}

\* e is a MANIFESTAÇÕES event whose next surviving OUT event is one too
Substituido(e) ==
    /\ e[4] = "MANIFESTAÇÕES"
    /\ \E f \in Sobreviventes :
          /\ Antes(e, f)
          /\ f[4] = "MANIFESTAÇÕES"
          /\ ~\E g \in Sobreviventes : Antes(e, g) /\ Antes(g, f)

(***************************************************************************)
(* C10 as stated: the final output holds one pair for each OUT event the   *)
(* classifier emitted, with that event's label and start page, in event    *)
(* order.                                                                  *)
(***************************************************************************)
C10_Original == pc = "done" => Corresponde(OutsEmitidos)

(***************************************************************************)
(* C10 amended: the final output holds one pair, with the event's label    *)
(* and start page and in (page, sequence) order, for each emitted OUT      *)
(* event that survives the same-page dedup (it is labelled "DECISÃO DA     *)
(* PRESIDÊNCIA" or is the last OUT event of its (page, label)) and is not  *)
(* a "MANIFESTAÇÕES" event whose next surviving OUT event is also          *)
(* "MANIFESTAÇÕES" (its interval is replaced by that one's).               *)
(***************************************************************************)
C10_OutIntervals ==
    pc = "done" => Corresponde({e \in Sobreviventes : ~Substituido(e)})

\* one event was dropped by the same-page dedup, the interval of another
\* was replaced, and the allow-listed title was kept
C10_Witness ==
    /\ pc = "done"
    /\ \E e \in OutsEmitidos : ~Sobrevive(e)
    /\ \E e \in Sobreviventes : Substituido(e)
    /\ itens # <<>>

C10_WitnessDecisao ==
    /\ pc = "done"
    /\ \E a, b \in 1..Len(itens) :
          /\ a < b
          /\ itens[a] = itens[b]
          /\ Rotulo(itens[a]) = "DECISÃO DA PRESIDÊNCIA"

(***************************************************************************)
(* The interval of the OUT event at index k of the post-processed list.    *)
(***************************************************************************)
EhOut(k) == eventos[k][3] = "OUT"

\* the interval of event k is replaced by the one of the next OUT event
SubstituidoEm(k) ==
    /\ eventos[k][4] = "MANIFESTAÇÕES"
    /\ \E m \in (k + 1)..Len(eventos) :
          /\ EhOut(m)
          /\ eventos[m][4] = "MANIFESTAÇÕES"
          /\ \A j \in (k + 1)..(m - 1) : ~EhOut(j)

ItemDe(k) ==
    itens[1 + Cardinality({j \in 1..(k - 1) : EhOut(j) /\ ~SubstituidoEm(j)})]

\* page_end of event k: the value the loop computes and, once the output
\* is built, the end of the interval of the event
FechaEm(k, fim) ==
    /\ clamp(pag_fim_regra(eventos, k, npages), eventos[k][1]) = fim
    /\ (pc = "done" /\ ~SubstituidoEm(k))
          => /\ PagIni(ItemDe(k)) = eventos[k][1]
             /\ PagFim(ItemDe(k)) = fim
             /\ Rotulo(ItemDe(k)) = eventos[k][4]

(***************************************************************************)
(* C11: an OUT event whose successor in the post-processed list is on a    *)
(* later page and is top-of-page has page_end = next.page - 1, whatever    *)
(* its overlap flag and whether the successor is CUT or OUT.               *)
(***************************************************************************)
C11_TopClosing ==
    PosProcessado =>
        \A k \in 1..(Len(eventos) - 1) :
            (/\ EhOut(k)
             /\ eventos[k + 1][1] > eventos[k][1]
             /\ eventos[k + 1][6])
            => FechaEm(k, eventos[k + 1][1] - 1)

\* an overlapping section closed before a top-of-page CUT two pages later
C11_Witness ==
    /\ pc = "done"
    /\ \E k \in 1..(Len(eventos) - 1) :
          /\ EhOut(k)
          /\ eventos[k][5]
          /\ eventos[k + 1][1] > eventos[k][1] + 1
          /\ eventos[k + 1][6]
          /\ eventos[k + 1][3] = "CUT"
          /\ ~SubstituidoEm(k)
          /\ ItemDe(k)[1] = <<eventos[k][1], eventos[k + 1][1] - 1>>

C11_WitnessOut ==
    /\ pc = "done"
    /\ \E k \in 1..(Len(eventos) - 1) :
          /\ EhOut(k)
          /\ eventos[k + 1][1] > eventos[k][1]
          /\ eventos[k + 1][6]
          /\ EhOut(k + 1)

(***************************************************************************)
(* C12: an OUT event with closes_with_overlap whose successor is on a      *)
(* later page and is not top-of-page has page_end = next.page; when the    *)
(* successor is on the same page, page_end = current.page.                 *)
(***************************************************************************)
C12_OverlapClosing ==
    PosProcessado =>
        \A k \in 1..(Len(eventos) - 1) :
            /\ (/\ EhOut(k)
                /\ eventos[k][5]
                /\ eventos[k + 1][1] > eventos[k][1]
                /\ ~eventos[k + 1][6])
               => FechaEm(k, eventos[k + 1][1])
            /\ (/\ EhOut(k)
                /\ eventos[k][5]
                /\ eventos[k + 1][1] = eventos[k][1])
               => FechaEm(k, eventos[k][1])

\* a section that shares the page of a title found in the middle of it
C12_Witness ==
    /\ pc = "done"
    /\ \E k \in 1..(Len(eventos) - 1) :
          /\ EhOut(k)
          /\ eventos[k][5]
          /\ eventos[k + 1][1] > eventos[k][1]
          /\ ~eventos[k + 1][6]
          /\ ~SubstituidoEm(k)
          /\ ItemDe(k)[1] = <<eventos[k][1], eventos[k + 1][1]>>

C12_WitnessMesmaPagina ==
    /\ pc = "done"
    /\ \E k \in 1..(Len(eventos) - 1) :
          /\ EhOut(k)
          /\ eventos[k + 1][1] = eventos[k][1]
          /\ ~SubstituidoEm(k)
          /\ ItemDe(k)[1] = <<eventos[k][1]>>

(***************************************************************************)
(* C15 as stated: for every OUT event the page_end given by the closing    *)
(* rules is already >= page_start before the clamp.                        *)
(***************************************************************************)
C15_Original ==
    PosProcessado =>
        \A k \in 1..Len(eventos) :
            EhOut(k) => pag_fim_regra(eventos, k, npages) >= eventos[k][1]

(***************************************************************************)
(* C15 amended: the clamp changes a value only for the final event of the  *)
(* post-processed list, when its printed page number is greater than       *)
(* total_physical_pages; for every OUT event that has a successor the      *)
(* page_end given by the closing rules is already >= page_start.           *)
(***************************************************************************)
C15_ClampOnlyLast ==
    PosProcessado =>
        \A k \in 1..Len(eventos) :
            EhOut(k) =>
                \/ pag_fim_regra(eventos, k, npages) >= eventos[k][1]
                \/ (k = Len(eventos) /\ eventos[k][1] > npages)

\* the clamp acted on the final event, after events it left alone
C15_Witness ==
    /\ pc = "done"
    /\ Len(eventos) >= 2
    /\ EhOut(Len(eventos))
    /\ EhOut(1)
    /\ pag_fim_regra(eventos, Len(eventos), npages) < eventos[Len(eventos)][1]
    /\ PagFim(itens[Len(itens)]) = eventos[Len(eventos)][1]

(***************************************************************************)
(* The same-page policy as a relation between the sorted list and the      *)
(* list that leaves the filter.                                            *)
(***************************************************************************)
\* event k of antes is kept by the policy
Mantido(antes, k) ==
    \/ antes[k][3] = "CUT"
    \/ antes[k][4] = "DECISÃO DA PRESIDÊNCIA"
    \/ ~\E m \in 1..Len(antes) :
          /\ antes[m][3] = "OUT"
          /\ antes[m][1] = antes[k][1]
          /\ antes[m][4] = antes[k][4]
          /\ antes[m][2] > antes[k][2]

\* depois is antes restricted to the kept events, in the same order
PoliticaMesmaPagina(antes, depois) ==
    LET K == {k \in 1..Len(antes) : Mantido(antes, k)} IN
    /\ Len(depois) = Cardinality(K)
    /\ \A k \in K : depois[Cardinality({j \in K : j <= k})] = antes[k]

(***************************************************************************)
(* C13: the same-page filter keeps, for every (page, label) with a label   *)
(* other than DECISÃO DA PRESIDÊNCIA, exactly the OUT event of highest     *)
(* sequence, keeps every DECISÃO DA PRESIDÊNCIA event and every CUT event, *)
(* and leaves the relative order of the kept events unchanged.             *)
(***************************************************************************)
C13_SamePagePolicy ==
    [][pc = "filter" => PoliticaMesmaPagina(eventos, eventos')]_vars

\* after the filter: an earlier occurrence was dropped and two DECISÃO DA
\* PRESIDÊNCIA events of one page were both kept
C13_Witness ==
    /\ pc = "build"
    /\ \E e \in OutsEmitidos :
          /\ e[4] = "OFÍCIOS"
          /\ \A k \in 1..Len(eventos) : eventos[k] # e
    /\ \E k \in 1..(Len(eventos) - 1) :
          /\ eventos[k][4] = "DECISÃO DA PRESIDÊNCIA"
          /\ eventos[k + 1][4] = "DECISÃO DA PRESIDÊNCIA"
          /\ eventos[k + 1][1] = eventos[k][1]

\* after the filter: a dropped event and a kept CUT of the same page
C13_WitnessCut ==
    /\ pc = "build"
    /\ Len(eventos) < Len(emitidos)
    /\ \E k \in 1..Len(eventos) : eventos[k][3] = "CUT"

(***************************************************************************)
(* C16 as stated: the interval-level collapse only merges a repetition on  *)
(* the same page, so every MANIFESTAÇÕES section of the post-processed     *)
(* list (there is one per page after the same-page filter) has its own     *)
(* interval in the output, starting on its page.                           *)
(***************************************************************************)
C16_CollapseSamePage ==
    pc = "done" =>
        \A k \in 1..Len(eventos) :
            (EhOut(k) /\ eventos[k][4] = "MANIFESTAÇÕES")
            => \E j \in 1..Len(itens) :
                  /\ Rotulo(itens[j]) = "MANIFESTAÇÕES"
                  /\ PagIni(itens[j]) = eventos[k][1]

(***************************************************************************)
(* C14: each consumed line emits at most one event, and each emitted       *)
(* event gets the sequence number of the previous event plus one (1 for    *)
(* the first), so the sequence numbers of the raw event stream are unique  *)
(* and strictly increasing in document order.                              *)
(***************************************************************************)
C14_FirstMatchWins ==
    [][/\ Len(emitidos') <= Len(emitidos) + 1
       /\ Emite =>
            /\ pc = "line"
            /\ \E e \in {emitidos'[Len(emitidos')]} :
                  /\ emitidos' = Append(emitidos, e)
                  /\ e[1] = pag_num
                  /\ e[2] = IF emitidos = <<>> THEN 1 ELSE UltimoEmitido[2] + 1
       /\ \A a, b \in 1..Len(emitidos') :
            a < b => emitidos'[a][2] < emitidos'[b][2]]_vars

\* the third event has just been emitted, from the first line of the
\* page after the one that holds the first two
C14_Witness ==
    /\ Len(emitidos) = 3
    /\ emitidos[3][2] = 3
    /\ emitidos[1][1] = emitidos[2][1]
    /\ emitidos[3][1] > emitidos[2][1]
    /\ pc = "line"
    /\ li = 2
    /\ ordem = 3

(***************************************************************************)
(* C19: when in_tramitacao is true and the key of the line is the          *)
(* RECEBIMENTO or the APRESENTAÇÃO marker, exactly one CUT event is        *)
(* emitted, sub_tramitacao becomes that marker, apresentacao_ativa becomes *)
(* true iff the marker is APRESENTAÇÃO, sub_apresentacao becomes None and  *)
(* in_tramitacao stays true.                                               *)
(***************************************************************************)
C19_MarkerInTramitacao ==
    [][(/\ pc = "line"
        /\ in_tramitacao
        /\ compact_key(linhas[li]) \in {C_RECEBIMENTO, C_APRESENTACAO})
       => /\ Len(emitidos') = Len(emitidos) + 1
          /\ emitidos'[Len(emitidos')][3] = "CUT"
          /\ emitidos'[Len(emitidos')][4] = None
          /\ sub_tramitacao' = compact_key(linhas[li])
          /\ apresentacao_ativa' = (compact_key(linhas[li]) = C_APRESENTACAO)
          /\ sub_apresentacao' = None
          /\ in_tramitacao']_vars

\* RECEBIMENTO read after APRESENTAÇÃO and a subtype inside TRAMITAÇÃO:
\* the open APRESENTAÇÃO context was closed by the marker
C19_Witness ==
    /\ in_tramitacao
    /\ sub_tramitacao = C_RECEBIMENTO
    /\ ~apresentacao_ativa
    /\ sub_apresentacao = None
    /\ Len(emitidos) >= 4
    /\ UltimoEmitido[3] = "CUT"
    /\ emitidos[Len(emitidos) - 1][4]
         = "TRAMITAÇÃO DE PROPOSIÇÕES: APRESENTAÇÃO DE PROPOSIÇÕES: PROJETOS DE LEI"

C19_WitnessApresentacao ==
    /\ in_tramitacao
    /\ sub_tramitacao = C_APRESENTACAO
    /\ apresentacao_ativa
    /\ sub_apresentacao = None
    /\ Len(emitidos) >= 3
    /\ UltimoEmitido[3] = "CUT"
    /\ emitidos[Len(emitidos) - 1][4]
         = "TRAMITAÇÃO DE PROPOSIÇÕES: APRESENTAÇÃO DE PROPOSIÇÕES: PROJETOS DE LEI"

(***************************************************************************)
(* SpecApresentacao: documents of APRESENTAÇÃO markers and subtype         *)
(* triggers, inside and outside TRAMITAÇÃO, printed numbers equal to the   *)
(* physical ones.                                                          *)
(***************************************************************************)
VocabApresentacao == {L_TRAMITACAO, L_APRESENTACAO, L_PL, L_REQ, L_CORRESP,
                      L_ATA, L_TEXTO}
PaginasApresentacao == Paginas(VocabApresentacao, {})

LePaginaApresentacao == LePagina(PaginasApresentacao)

NextApresentacao == LePaginaApresentacao \/ ClassificaLinha \/ PosProcessa

SpecApresentacao == Init /\ [][NextApresentacao]_vars

\* the line being classified triggers subtype t (PL is tested first)
Gatilho(t) ==
    LET k1 == win_words(linhas, li, 1)
        k2 == win_words(linhas, li, 2)
        k3 == win_words(linhas, li, 3)
    IN IF t = "PL" THEN gatilho_PL(k1, k2, k3)
       ELSE gatilho_REQ(k1, k2, k3) /\ ~gatilho_PL(k1, k2, k3)

RotuloSubtipo(t, tram) ==
    (IF tram THEN "TRAMITAÇÃO DE PROPOSIÇÕES: " ELSE "")
    \o (IF t = "PL" THEN "APRESENTAÇÃO DE PROPOSIÇÕES: PROJETOS DE LEI"
        ELSE "APRESENTAÇÃO DE PROPOSIÇÕES: REQUERIMENTOS")

EhSubtipo(e) == e[3] = "OUT" /\ e[4] \in RotulosApresentacao

SubtipoDe(e) ==
    IF e[4] \in {RotuloSubtipo("PL", TRUE), RotuloSubtipo("PL", FALSE)}
    THEN "PL" ELSE "REQ"

\* a trigger read while apresentacao_ativa: the event, its label and the
\* state it leaves
Subdivide ==
    \A t \in {"PL", "REQ"} :
        (pc = "line" /\ apresentacao_ativa /\ Gatilho(t))
        => /\ Emite <=> (sub_apresentacao # t)
           /\ Emite => /\ emitidos'[Len(emitidos')][3] = "OUT"
                       /\ emitidos'[Len(emitidos')][4] = RotuloSubtipo(t, in_tramitacao)
           /\ sub_apresentacao' = t
           /\ UNCHANGED <<in_tramitacao, apresentacao_ativa, viu_corresp_cab>>

\* the step emits a subtype event right after a subtype event of the
\* same subtype
RepeteSubtipo ==
    /\ Emite
    /\ emitidos # <<>>
    /\ EhSubtipo(UltimoEmitido)
    /\ EhSubtipo(emitidos'[Len(emitidos')])
    /\ SubtipoDe(emitidos'[Len(emitidos')]) = SubtipoDe(UltimoEmitido)

(***************************************************************************)
(* C18 as stated: a trigger read while apresentacao_ativa emits an OUT     *)
(* event iff its subtype differs from sub_apresentacao, with the prefix    *)
(* iff in_tramitacao, leaving in_tramitacao, apresentacao_ativa and        *)
(* viu_corresp_cab unchanged; and no two consecutive APRESENTAÇÃO-subtype  *)
(* events of the stream (no context reset, which always emits an event,    *)
(* lies between them) have the same subtype.                               *)
(***************************************************************************)
C18_Original ==
    [][Subdivide /\ ~RepeteSubtipo]_vars

(***************************************************************************)
(* C18 amended: a trigger read while apresentacao_ativa emits an OUT event *)
(* iff its subtype differs from sub_apresentacao, with the prefix iff      *)
(* in_tramitacao, leaving in_tramitacao, apresentacao_ativa and            *)
(* viu_corresp_cab unchanged; while sub_apresentacao is set, the last      *)
(* event of the stream is the event of that subtype; two consecutive       *)
(* subtype events have the same subtype only when sub_apresentacao was     *)
(* cleared between them, and the only step that clears it without emitting *)
(* an event is the APRESENTAÇÃO marker read outside TRAMITAÇÃO.            *)
(***************************************************************************)
C18_Subdivision ==
    [][/\ Subdivide
       /\ RepeteSubtipo => sub_apresentacao = None
       /\ (sub_apresentacao' # None)
            => /\ emitidos' # <<>>
               /\ EhSubtipo(emitidos'[Len(emitidos')])
               /\ SubtipoDe(emitidos'[Len(emitidos')]) = sub_apresentacao'
       /\ (sub_apresentacao # None /\ sub_apresentacao' = None /\ ~Emite)
            => /\ pc = "line"
               /\ ~in_tramitacao
               /\ compact_key(linhas[li]) = C_APRESENTACAO]_vars

\* inside TRAMITAÇÃO: a PL event, then a REQ event, both with the prefix
C18_Witness ==
    /\ in_tramitacao
    /\ apresentacao_ativa
    /\ sub_apresentacao = "REQ"
    /\ Len(emitidos) >= 4
    /\ UltimoEmitido[4] = RotuloSubtipo("REQ", TRUE)
    /\ emitidos[Len(emitidos) - 1][4] = RotuloSubtipo("PL", TRUE)

\* outside TRAMITAÇÃO, under a CORRESPONDÊNCIA header: the event has no
\* prefix and the header flag is still set
C18_WitnessCorresp ==
    /\ ~in_tramitacao
    /\ apresentacao_ativa
    /\ viu_corresp_cab
    /\ sub_apresentacao = "REQ"
    /\ Len(emitidos) = 1
    /\ UltimoEmitido[4] = RotuloSubtipo("REQ", FALSE)

\* outside TRAMITAÇÃO: the trigger on the first line of the second page
\* repeats the subtype and emitted nothing
C18_WitnessRepetido ==
    /\ ~in_tramitacao
    /\ apresentacao_ativa
    /\ sub_apresentacao = "PL"
    /\ pc = "line"
    /\ li = 2
    /\ linhas[1] = L_PL
    /\ Len(emitidos) = 1
    /\ UltimoEmitido[4] = RotuloSubtipo("PL", FALSE)
    /\ UltimoEmitido[1] < pag_num

\* two PL events in a row, a silent APRESENTAÇÃO marker between them
C18_WitnessReentrada ==
    /\ Len(emitidos) = 2
    /\ emitidos[1][4] = RotuloSubtipo("PL", FALSE)
    /\ emitidos[2][4] = RotuloSubtipo("PL", FALSE)

(***************************************************************************)
(* SpecSilenciosa: documents with the APRESENTAÇÃO marker, ordinary lines, *)
(* the CORRESPONDÊNCIA header, a subtype trigger and the markers that      *)
(* close the context.                                                      *)
(***************************************************************************)
VocabSilenciosa == {L_APRESENTACAO, L_TEXTO, L_CORRESP, L_PL, L_ATA,
                    L_TRAMITACAO, L_OFICIOS}
PaginasSilenciosa == Paginas(VocabSilenciosa, {})

LePaginaSilenciosa == LePagina(PaginasSilenciosa)

NextSilenciosa == LePaginaSilenciosa \/ ClassificaLinha \/ PosProcessa

SpecSilenciosa == Init /\ [][NextSilenciosa]_vars

(***************************************************************************)
(* C20: outside TRAMITAÇÃO the APRESENTAÇÃO marker emits no event and sets *)
(* apresentacao_ativa with sub_apresentacao = None; outside TRAMITAÇÃO     *)
(* apresentacao_ativa then falls only on a line that is a CUT-class        *)
(* marker or the TRAMITAÇÃO header, or that emits a non-subtype OUT event: *)
(* ordinary lines, page breaks, the CORRESPONDÊNCIA header and subtype     *)
(* events leave it true.                                                   *)
(***************************************************************************)
C20_SilentEntry ==
    [][/\ (pc = "line" /\ ~in_tramitacao
           /\ compact_key(linhas[li]) = C_APRESENTACAO)
          => /\ ~Emite
             /\ apresentacao_ativa'
             /\ sub_apresentacao' = None
             /\ UNCHANGED <<in_tramitacao, viu_corresp_cab, ordem>>
       /\ (~in_tramitacao /\ apresentacao_ativa /\ ~apresentacao_ativa')
          => /\ pc = "line"
             /\ Emite
             /\ \/ compact_key(linhas[li]) \in CUT_KEYS
                \/ StartsWith(compact_words(linhas[li]), "PARECER")
                \/ compact_key(linhas[li]) = C_TRAMITACAO
                \/ OutNaoApresentacao(emitidos'[Len(emitidos')])]_vars

\* the marker was read on the first page; the context is still open after
\* the page break, the CORRESPONDÊNCIA header and a subtype event
C20_Witness ==
    /\ pc = "page"
    /\ i = 2
    /\ linhas = <<L_CORRESP, L_PL>>
    /\ ~in_tramitacao
    /\ apresentacao_ativa
    /\ viu_corresp_cab
    /\ sub_apresentacao = "PL"
    /\ emitidos = << <<2, 1, "OUT", "APRESENTAÇÃO DE PROPOSIÇÕES: PROJETOS DE LEI",
                       TRUE, FALSE>> >>

\* the context is still open after a page of ordinary lines
C20_WitnessTexto ==
    /\ pc = "page"
    /\ i = 2
    /\ linhas = <<L_TEXTO, L_TEXTO>>
    /\ apresentacao_ativa
    /\ ~in_tramitacao
    /\ emitidos = <<>>

(***************************************************************************)
(* SpecQuebrados: documents whose pages hold direct OUT titles on one line *)
(* and split over consecutive lines.                                       *)
(***************************************************************************)
L_DECISAO_DA == <<"DECISÃO", "DA">>
L_PRESIDENCIA == <<"PRESIDÊNCIA">>
L_APROVADOS == <<"APROVADOS">>

VocabQuebrados == {L_TEXTO, L_DECISAO, L_DECISAO_DA, L_PRESIDENCIA, L_REQ,
                   L_APROVADOS}
PaginasQuebrados == Paginas(VocabQuebrados, {})

LePaginaQuebrados == LePagina(PaginasQuebrados)

NextQuebrados == LePaginaQuebrados \/ ClassificaLinha \/ PosProcessa

SpecQuebrados == Init /\ [][NextQuebrados]_vars

\* lines a .. a+w-1 of the page just read hold a direct OUT title that
\* line a alone does not
TituloQuebrado(a, w) ==
    /\ a + w - 1 <= Len(linhas)
    /\ label_direto(win_keys(linhas, a, w)) # None
    /\ label_direto(compact_key(linhas[a])) = None

(***************************************************************************)
(* C17 as stated: when a direct OUT title is split across two or three     *)
(* consecutive lines of a page, the classifier has emitted, once the page  *)
(* is consumed, the OUT event with the label of that title on that page.   *)
(***************************************************************************)
C17_WrappedTitles ==
    (pc = "page" /\ i >= 1 /\ linhas # <<>>) =>
        \A a \in 1..Len(linhas) : \A w \in {2, 3} :
            TituloQuebrado(a, w) =>
                \E k \in 1..Len(emitidos) :
                    /\ emitidos[k][1] = pag_num
                    /\ emitidos[k][3] = "OUT"
                    /\ emitidos[k][4] = label_direto(win_keys(linhas, a, w))

(***************************************************************************)
(* C21: a line whose key is OFÍCIOS always emits exactly one OUT event;    *)
(* its label is "CORRESPONDÊNCIA: OFÍCIOS" iff viu_corresp_cab is true     *)
(* when the line is consumed (also when apresentacao_ativa is true),       *)
(* otherwise "OFÍCIOS"; afterwards viu_corresp_cab, in_tramitacao and      *)
(* apresentacao_ativa are false and both sub-contexts are None.            *)
(***************************************************************************)
C21_ContextualOficios ==
    [][(pc = "line" /\ compact_key(linhas[li]) = C_OFICIOS)
       => /\ Len(emitidos') = Len(emitidos) + 1
          /\ emitidos'[Len(emitidos')][1] = pag_num
          /\ emitidos'[Len(emitidos')][3] = "OUT"
          /\ emitidos'[Len(emitidos')][4]
               = IF viu_corresp_cab THEN "CORRESPONDÊNCIA: OFÍCIOS" ELSE "OFÍCIOS"
          /\ ~viu_corresp_cab'
          /\ ~in_tramitacao'
          /\ ~apresentacao_ativa'
          /\ sub_tramitacao' = None
          /\ sub_apresentacao' = None]_vars

\* OFÍCIOS read under the header while the APRESENTAÇÃO context, with a
\* subtype, was open: the contextual label, every context closed
C21_Witness ==
    /\ Len(emitidos) = 2
    /\ emitidos[1][4] = "APRESENTAÇÃO DE PROPOSIÇÕES: PROJETOS DE LEI"
    /\ emitidos[2][4] = "CORRESPONDÊNCIA: OFÍCIOS"
    /\ ~viu_corresp_cab
    /\ ~apresentacao_ativa
    /\ sub_apresentacao = None

\* OFÍCIOS read inside TRAMITAÇÃO with no header seen: the plain label
C21_WitnessSimples ==
    /\ Len(emitidos) = 2
    /\ emitidos[1][3] = "CUT"
    /\ emitidos[2][4] = "OFÍCIOS"
    /\ ~in_tramitacao
    /\ linhas[1] = L_TRAMITACAO

(***************************************************************************)
(* SpecInerte: documents of ordinary lines and of markers that match only  *)
(* in their context, on pages printed up to and above MAX_PAG_LEIS.        *)
(***************************************************************************)
VocabInerte == {L_TEXTO, L_RECEBIMENTO, L_LEI, L_TRAMITACAO, L_APRESENTACAO,
                L_PL}
PaginasInerte == Paginas(VocabInerte, {NumAcimaLeis})

LePaginaInerte == LePagina(PaginasInerte)

NextInerte == LePaginaInerte \/ ClassificaLinha \/ PosProcessa

SpecInerte == Init /\ [][NextInerte]_vars

\* the line being classified matches none of the rules of the cascade
NaoCasa ==
    LET ln == linhas[li]
        c == compact_key(ln)
    IN /\ c \notin CUT_KEYS
       /\ ~StartsWith(compact_words(ln), "PARECER")
       /\ c # C_TRAMITACAO
       /\ ~(in_tramitacao /\ c \in {C_RECEBIMENTO, C_APRESENTACAO})
       /\ ~(~in_tramitacao /\ c = C_APRESENTACAO)
       /\ c # C_CORRESP_CAB
       /\ c # C_OFICIOS
       /\ ~(apresentacao_ativa /\ (Gatilho("PL") \/ Gatilho("REQ")))
       /\ ~(/\ ~pegou_leis
            /\ pag_num <= MAX_PAG_LEIS
            /\ ln_upper(ln) \in {"LEI", "LEIS"})
       /\ c # C_COMUNIC_PRESIDENCIA
       /\ label_direto(c) = None

(***************************************************************************)
(* C22: a line that matches none of the rules (the RECEBIMENTO marker      *)
(* outside TRAMITAÇÃO, an exact LEI / LEIS line after the one-shot flag is *)
(* set or on a page above 40, a trigger outside APRESENTAÇÃO, ordinary     *)
(* text) emits no event and leaves every field of the parser state and     *)
(* the sequence counter unchanged.                                         *)
(***************************************************************************)
C22_UnmatchedInert ==
    [][(pc = "line" /\ NaoCasa)
       => /\ ~Emite
          /\ UNCHANGED <<eventos, ordem, in_tramitacao, sub_tramitacao,
                         apresentacao_ativa, sub_apresentacao,
                         viu_corresp_cab, pegou_leis>>]_vars

\* an exact LEI line has just been consumed on a page printed above the
\* ceiling, inside TRAMITAÇÃO with the flag unset: nothing changed
C22_Witness ==
    /\ pc = "page"
    /\ i = 2
    /\ linhas = <<L_PAGINA(NumAcimaLeis), L_TRAMITACAO, L_LEI>>
    /\ in_tramitacao
    /\ ~pegou_leis
    /\ emitidos = << <<NumAcimaLeis, 1, "CUT", None, FALSE, TRUE>> >>

\* the second exact LEI line of a page, after the flag was set
C22_WitnessFlag ==
    /\ pc = "page"
    /\ i = 1
    /\ linhas = <<L_LEI, L_LEI>>
    /\ pegou_leis
    /\ Len(emitidos) = 1
    /\ ordem = 1

\* the RECEBIMENTO marker outside TRAMITAÇÃO, the APRESENTAÇÃO context open
C22_WitnessRecebimento ==
    /\ pc = "page"
    /\ i = 1
    /\ linhas = <<L_APRESENTACAO, L_RECEBIMENTO>>
    /\ apresentacao_ativa
    /\ sub_tramitacao = None
    /\ emitidos = <<>>

\* the line being classified is not consumed by a branch placed before the
\* "corte natural" step
ChegaAoCorteNatural ==
    LET c == compact_key(linhas[li]) IN
    /\ c \notin CUT_KEYS
    /\ ~StartsWith(compact_words(linhas[li]), "PARECER")
    /\ c # C_TRAMITACAO
    /\ ~(in_tramitacao /\ c \in {C_RECEBIMENTO, C_APRESENTACAO})
    /\ ~(~in_tramitacao /\ c = C_APRESENTACAO)

(***************************************************************************)
(* C23: the implicit-apresentação-close step never changes                 *)
(* apresentacao_ativa or sub_apresentacao, because every key it tests is   *)
(* consumed by the CUT-class or TRAMITAÇÃO rules before it; a classifier   *)
(* without the step gives, for every line and state, the same events and   *)
(* the same next state.                                                    *)
(***************************************************************************)
C23_ImplicitCloseRedundant ==
    /\ {C_TRAMITACAO, C_ATA, C_ATAS, C_MATERIA_ADM} \subseteq CUT_KEYS \cup {C_TRAMITACAO}
    /\ pc = "line" =>
        /\ ChegaAoCorteNatural
             => corte_natural(Estado, compact_key(linhas[li])) = Estado
        /\ classifica(Estado, linhas, li, pag_num)
             = classifica_sem_corte(Estado, linhas, li, pag_num)

\* a key tested by the step is about to be classified while the
\* APRESENTAÇÃO context, with a subtype, is open outside TRAMITAÇÃO
C23_Witness ==
    /\ pc = "line"
    /\ apresentacao_ativa
    /\ sub_apresentacao = "PL"
    /\ ~in_tramitacao
    /\ compact_key(linhas[li]) \in {C_TRAMITACAO, C_ATA, C_ATAS, C_MATERIA_ADM}

(***************************************************************************)
(* SpecJanela: documents where a subtype title is split over two lines,    *)
(* inside and outside the APRESENTAÇÃO context.                            *)
(***************************************************************************)
L_PROJETOS_DE == <<"PROJETOS", "DE">>

VocabJanela == {L_APRESENTACAO, L_TRAMITACAO, L_PROJETOS_DE, L_LEI, L_TEXTO,
                L_PL}
PaginasJanela == Paginas(VocabJanela, {})

LePaginaJanela == LePagina(PaginasJanela)

NextJanela == LePaginaJanela \/ ClassificaLinha \/ PosProcessa

SpecJanela == Init /\ [][NextJanela]_vars

\* the window of w lines that starts at line a triggers a subtype and the
\* window of w - 1 lines does not
GatilhoPorJanela(a, w) ==
    LET kw == win_words(linhas, a, w)
        kv == win_words(linhas, a, w - 1)
    IN /\ a >= 1
       /\ a + w - 1 <= Len(linhas)
       /\ gatilho_PL(kw, kw, kw) \/ gatilho_REQ(kw, kw, kw)
       /\ ~(gatilho_PL(kv, kv, kv) \/ gatilho_REQ(kv, kv, kv))

\* the line being classified continues a title that the subdivision rule
\* recognised, one or two lines above, through a window that reaches it
ContinuaTitulo ==
    /\ pc = "line"
    /\ apresentacao_ativa
    /\ \/ GatilhoPorJanela(li - 1, 2)
       \/ GatilhoPorJanela(li - 2, 3)
       \/ GatilhoPorJanela(li - 1, 3)

(***************************************************************************)
(* C24 as stated: after the subdivision rule fires on a line because a 2-  *)
(* or 3-line window starts with PROJETO(S) DE LEI or REQUERIMENTOS, the    *)
(* continuation lines of that window emit no further event and do not      *)
(* reset the APRESENTAÇÃO context.                                         *)
(***************************************************************************)
C24_WindowOneEvent ==
    [][ContinuaTitulo => (~Emite /\ apresentacao_ativa')]_vars

(***************************************************************************)
(* C25 as stated: if the first relevant line of page p emitted an event,   *)
(* every interval of the output that starts on a page before p ends on     *)
(* page p - 1 at most, also when the same-page filter dropped that event   *)
(* in favour of a later occurrence of its label on page p.                 *)
(***************************************************************************)
C25_TopHardBoundary ==
    pc = "done" =>
        \A k \in 1..Len(emitidos) :
            emitidos[k][6] =>
                \A j \in 1..Len(itens) :
                    PagIni(itens[j]) < emitidos[k][1]
                    => PagFim(itens[j]) <= emitidos[k][1] - 1

(***************************************************************************)
(* C26: after every consumed line, sub_apresentacao # None implies         *)
(* apresentacao_ativa; sub_tramitacao # None implies in_tramitacao; and    *)
(* in_tramitacao and apresentacao_ativa hold together iff sub_tramitacao   *)
(* is the APRESENTAÇÃO marker.                                             *)
(***************************************************************************)
C26_ContextNesting ==
    /\ sub_apresentacao # None => apresentacao_ativa
    /\ sub_tramitacao # None => in_tramitacao
    /\ (in_tramitacao /\ apresentacao_ativa) <=> (sub_tramitacao = C_APRESENTACAO)

\* inside TRAMITAÇÃO, under the APRESENTAÇÃO marker, a subtype emitted
C26_Witness ==
    /\ in_tramitacao
    /\ apresentacao_ativa
    /\ sub_tramitacao = C_APRESENTACAO
    /\ sub_apresentacao = "PL"
    /\ Len(emitidos) >= 3

\* the TRAMITAÇÃO header read while a silent APRESENTAÇÃO context, with a
\* subtype, was open
C26_WitnessCabecalho ==
    /\ in_tramitacao
    /\ ~apresentacao_ativa
    /\ sub_tramitacao = None
    /\ sub_apresentacao = None
    /\ Len(emitidos) = 2
    /\ emitidos[1][4] = "APRESENTAÇÃO DE PROPOSIÇÕES: PROJETOS DE LEI"
    /\ emitidos[2][3] = "CUT"

\* the RECEBIMENTO marker inside TRAMITAÇÃO
C26_WitnessRecebimento ==
    /\ in_tramitacao
    /\ ~apresentacao_ativa
    /\ sub_tramitacao = C_RECEBIMENTO

(***************************************************************************)
(* SpecSombra: documents with the REQUERIMENTOS APROVADOS title inside and *)
(* outside the APRESENTAÇÃO context.                                       *)
(***************************************************************************)
L_REQS_APROV == <<"REQUERIMENTOS", "APROVADOS">>

VocabSombra == {L_APRESENTACAO, L_TRAMITACAO, L_REQS_APROV, L_REQ, L_TEXTO,
                L_ATA}
PaginasSombra == Paginas(VocabSombra, {})

LePaginaSombra == LePagina(PaginasSombra)

NextSombra == LePaginaSombra \/ ClassificaLinha \/ PosProcessa

SpecSombra == Init /\ [][NextSombra]_vars

(***************************************************************************)
(* C27: while apresentacao_ativa is true, a line whose key starts with     *)
(* REQUERIMENTOS (REQUERIMENTOSAPROVADOS included) never emits a           *)
(* "REQUERIMENTOS APROVADOS" event; it is consumed as a REQUERIMENTOS      *)
(* subdivision trigger and apresentacao_ativa stays true.                  *)
(***************************************************************************)
C27_Shadowing ==
    [][(/\ pc = "line"
        /\ apresentacao_ativa
        /\ StartsWith(compact_words(linhas[li]), C_REQUERIMENTOS))
       => /\ Emite <=> (sub_apresentacao # "REQ")
          /\ Emite => emitidos'[Len(emitidos')][4] = RotuloSubtipo("REQ", in_tramitacao)
          /\ \A k \in (Len(emitidos) + 1)..Len(emitidos') :
                emitidos'[k][4] # "REQUERIMENTOS APROVADOS"
          /\ sub_apresentacao' = "REQ"
          /\ apresentacao_ativa'
          /\ in_tramitacao' = in_tramitacao]_vars

\* the REQUERIMENTOS APROVADOS title read under APRESENTAÇÃO: a subtype
\* event and the context still open
C27_Witness ==
    /\ pc = "page"
    /\ i = 1
    /\ linhas = <<L_APRESENTACAO, L_REQS_APROV>>
    /\ apresentacao_ativa
    /\ sub_apresentacao = "REQ"
    /\ Len(emitidos) = 1
    /\ emitidos[1][4] = "APRESENTAÇÃO DE PROPOSIÇÕES: REQUERIMENTOS"

\* the same title read after the subtype was already REQUERIMENTOS: no event
C27_WitnessSemEvento ==
    /\ pc = "page"
    /\ i = 2
    /\ linhas = <<L_REQS_APROV>>
    /\ apresentacao_ativa
    /\ sub_apresentacao = "REQ"
    /\ Len(emitidos) = 1
    /\ emitidos[1][1] = 1

\* the same title read outside the context: the direct OUT event
C27_WitnessFora ==
    /\ linhas = <<L_REQS_APROV>>
    /\ pc = "page"
    /\ i = 1
    /\ Len(emitidos) = 1
    /\ emitidos[1][4] = "REQUERIMENTOS APROVADOS"

(***************************************************************************)
(* C28: for any two adjacent pairs of the final output, the earlier        *)
(* interval's page_start <= the later's page_start and the earlier         *)
(* interval's page_end <= the later's page_start: consecutive intervals    *)
(* share at most one page.                                                 *)
(***************************************************************************)
C28_AdjacentIntervals ==
    pc = "done" =>
        \A j \in 1..(Len(itens) - 1) :
            /\ PagIni(itens[j]) <= PagIni(itens[j + 1])
            /\ PagFim(itens[j]) <= PagIni(itens[j + 1])

\* three intervals: the first two start on one page, the second runs on
\* to the page where the third starts
C28_Witness ==
    /\ pc = "done"
    /\ Len(itens) = 3
    /\ PagFim(itens[1]) = PagIni(itens[2])
    /\ PagIni(itens[2]) < PagFim(itens[2])
    /\ PagFim(itens[2]) = PagIni(itens[3])

\* a MANIFESTAÇÕES interval replaced the previous one, after another interval
C28_WitnessSubstituido ==
    /\ pc = "done"
    /\ Len(itens) = 2
    /\ Rotulo(itens[2]) = "MANIFESTAÇÕES"
    /\ Cardinality({k \in 1..Len(eventos) : eventos[k][4] = "MANIFESTAÇÕES"}) = 2

(***************************************************************************)
(* C30: every OUT event is emitted with a label and fim_sobreposto true,   *)
(* every CUT event with label None and fim_sobreposto false; hence for an  *)
(* OUT event the last branch of the pag_fim computation (next event on a   *)
(* later page, not at the top, no overlap: pag_fim = pag_next - 1) is      *)
(* never taken.                                                            *)
(***************************************************************************)
C30_EventShape ==
    /\ \A k \in 1..Len(emitidos) :
          \/ /\ emitidos[k][3] = "OUT"
             /\ emitidos[k][4] # None
             /\ emitidos[k][5] = TRUE
          \/ /\ emitidos[k][3] = "CUT"
             /\ emitidos[k][4] = None
             /\ emitidos[k][5] = FALSE
    /\ PosProcessado =>
          \A k \in 1..(Len(eventos) - 1) :
              (/\ EhOut(k)
               /\ eventos[k + 1][1] > eventos[k][1]
               /\ ~eventos[k + 1][6])
              => /\ eventos[k][5]
                 /\ pag_fim_regra(eventos, k, npages) = eventos[k + 1][1]

\* an OUT event followed, on the next page and below its first relevant
\* line, by a CUT event
C30_Witness ==
    /\ pc = "done"
    /\ \E k \in 1..(Len(eventos) - 1) :
          /\ EhOut(k)
          /\ eventos[k + 1][1] > eventos[k][1]
          /\ ~eventos[k + 1][6]
          /\ eventos[k + 1][3] = "CUT"
          /\ ItemDe(k)[1] = <<eventos[k][1], eventos[k + 1][1]>>

(***************************************************************************)
(* _with_backoff(fn, *args, **kwargs).  An exception message is the        *)
(* sequence of its words; "x in msg" is resolved at word granularity.      *)
(***************************************************************************)
TENTATIVAS == 8

\* pal in msg
contem(m, pal) ==
    \E k \in 1..(Len(m) - Len(pal) + 1) : SubSeq(m, k, k + Len(pal) - 1) = pal

\* the test of the except clause
erro_de_quota(m) ==
    \/ contem(m, <<"429">>)
    \/ contem(m, <<"Quota", "exceeded">>)
    \/ contem(m, <<"Rate", "Limit">>)
    \/ contem(m, <<"503">>)

\* the messages fn may raise
Mensagens ==
    {<<"APIError", "429">>,
     <<"Quota", "exceeded", "for", "quota", "metric">>,
     <<"Rate", "Limit", "Exceeded">>,
     <<"503", "Service", "Unavailable">>,
     <<"quota", "exceeded">>,
     <<"404", "Not", "Found">>,
     <<"Permission", "denied">>}

\* the parser has finished and _with_backoff is entered
InitBackoff ==
    /\ npages = 0
    /\ i = 0
    /\ linhas = <<>>
    /\ pag_num = 0
    /\ li = 1
    /\ eventos = <<>>
    /\ ordem = 0
    /\ in_tramitacao = FALSE
    /\ sub_tramitacao = None
    /\ apresentacao_ativa = FALSE
    /\ sub_apresentacao = None
    /\ viu_corresp_cab = FALSE
    /\ pegou_leis = FALSE
    /\ emitidos = <<>>
    /\ itens = <<>>
    /\ pc = "done"
    /\ attempt = 0
    /\ msg = <<>>
    /\ sleep_s = 0
    /\ chamadas = 0
    /\ retorno = None
    /\ bpc = "call"

\* try: return fn(*args, **kwargs) -- fn returns or raises
ChamaFn ==
    /\ bpc = "call"
    /\ attempt < TENTATIVAS
    /\ chamadas' = chamadas + 1
    /\ \/ /\ retorno' = "resultado"
          /\ bpc' = "returned"
          /\ UNCHANGED msg
       \/ /\ \E m \in Mensagens : msg' = m
          /\ bpc' = "except"
          /\ UNCHANGED retorno
    /\ UNCHANGED <<attempt, sleep_s>>
    /\ UNCHANGED docvars

\* except Exception as e: wait and continue on a quota error, else raise
TrataExcecao ==
    /\ bpc = "except"
    /\ IF erro_de_quota(msg)
       THEN /\ sleep_s' = Min({60, 2^attempt})
            /\ attempt' = attempt + 1
            /\ bpc' = "call"
            /\ UNCHANGED retorno
       ELSE /\ retorno' = "excecao"
            /\ bpc' = "raised"
            /\ UNCHANGED <<attempt, sleep_s>>
    /\ UNCHANGED <<msg, chamadas>>
    /\ UNCHANGED docvars

\* range(8) is exhausted: the function body ends
FimDoLaco ==
    /\ bpc = "call"
    /\ attempt = TENTATIVAS
    /\ retorno' = None
    /\ bpc' = "returned"
    /\ UNCHANGED <<attempt, msg, sleep_s, chamadas>>
    /\ UNCHANGED docvars

NextBackoff == ChamaFn \/ TrataExcecao \/ FimDoLaco

SpecBackoff == InitBackoff /\ [][NextBackoff]_vars

(***************************************************************************)
(* C29 as stated: _with_backoff calls fn at most 8 times, raises only for  *)
(* an exception that is not a quota error and without having retried it,   *)
(* and never returns to its caller without fn having succeeded.            *)
(***************************************************************************)
C29_BackoffReturns ==
    /\ chamadas <= TENTATIVAS
    /\ bpc = "raised" => (~erro_de_quota(msg) /\ retorno = "excecao")
    /\ bpc = "returned" => retorno = "resultado"

====
